---- MODULE Spec2Model ----
(***************************************************************************)
(* A model of the low-latency order pipeline: the lock-free ring buffer    *)
(* (ring_buffer.hpp), stepped at the granularity of its atomic loads and   *)
(* stores, the windowed Batcher (batcher.hpp), the three network           *)
(* simulators (network_sim/), stepped at the granularity of one atomic     *)
(* counter operation, and main.cpp's worker threads and shutdown.          *)
(*                                                                         *)
(* An Order is modelled by the two fields that tell a synthesized order    *)
(* from a default-constructed one: order_id and quantity.  Memory is       *)
(* sequentially consistent at the granularity of one load or store per     *)
(* step; the acquire/release pairs of the source give exactly that view    *)
(* of the index/slot accesses to a single producer and a single consumer.  *)
(***************************************************************************)
EXTENDS Integers, Sequences, FiniteSets, TLC

\* ------------------------------------------------------------------ bounds
\* Largest capacity handed to the ring's constructor.
MaxCapacity == 4
\* Width of size_t in the model (indices are kept modulo 2^WordBits).
WordBits == 3
\* Orders synthesized by each producer.
MaxOrders == 6
\* Largest batch_size handed to the Batcher's constructor.
MaxBatchSize == 3
\* Largest timeout handed to the Batcher's constructor, in clock ticks.
MaxTimeout == 2
\* Last reading of the clock.
MaxTime == 3
\* Orders handed to add_order.
MaxAdds == 5
\* Largest max_retries handed to the TCP simulator.
MaxRetries == 2
\* Calls of the send function made by each sending thread.
MaxSends == 2
\* Largest delay a send measures, in the simulator's unit.
MaxDelay == 2
\* Orders synthesized by each producer_thread of the orchestrator.
MaxProduced == 2
\* Orders synthesized by each producer when three threads share the ring.
MaxRacingOrders == 2
MaxFairProduced == 1
MaxTimedCalls == 2
MaxSharedAdds == 1

\* producer_thread: order_id_base = producer_id * 1000000.
IdBase == 1000000

VARIABLES
    capacity_,      \* LockFreeRingBuffer::capacity_
    ring_state,     \* "constructed" | "aborted" (assert failed) |
                    \* "undefined" (a slot access fell outside buffer_)
    head_,          \* LockFreeRingBuffer::head_
    tail_,          \* LockFreeRingBuffer::tail_
    buffer_,        \* LockFreeRingBuffer::buffer_, a function on 0..capacity_-1
    num_producers,  \* threads calling try_push
    num_consumers,  \* threads calling try_pop
    prod,           \* per producer: position in try_push and its locals
    cons,           \* per consumer: position in try_pop and its locals
    pushed,         \* history: orders whose try_push returned true, in order
    popped,         \* history: orders returned by successful try_pop, in order
    streak,         \* history: successful pushes since the ring was last empty
    streak_valid,   \* history: no pop completed since then
    streak_failed,  \* history: a push returned false since then
    batch_buffer_,          \* Batcher::batch_buffer_
    batch_size_threshold_,  \* Batcher::batch_size_threshold_
    timeout_,               \* Batcher::timeout_
    first_order_time_,      \* Batcher::first_order_time_
    has_orders_,            \* Batcher::has_orders_
    now,            \* high_resolution_clock::now(), in ticks
    flushes,        \* the send callback's invocations: <<orders, latency>>
    added,          \* orders handed to add_order so far
    last_op,        \* history: the last Batcher operation that ran
    last_ret,       \* history: what the last check_timeout returned
    last_sends,     \* history: callback invocations made by the last operation
    run,            \* history: orders added since the buffer was last empty
    bcall,          \* per thread inside the shared Batcher: position, locals
    network_type,   \* RuntimeConfig::network_type: "TCP" | "UDP" | "SHM"
    sim_initialized,\* the simulator of network_type exists (g_*_sim non-null)
    drop_rate_,     \* TCPSimulator / UDPSimulator::drop_rate_, as a class
    max_retries_,   \* TCPSimulator::max_retries_
    tcp_sim,        \* TCPSimulator's atomic counters
    udp_sim,        \* UDPSimulator's atomic counters
    shm_sim,        \* SharedMemorySimulator's atomic counters
    num_senders,    \* threads calling the send function
    snd,            \* per sender: position in the send and its locals
    g_running,              \* main.cpp: g_running
    g_shutdown_requested,   \* main.cpp: g_shutdown_requested
    main_pc,        \* main: "wait" | "join" | "force_flush" | "report" | "done"
    join_index,     \* main: threads of the vector joined so far
    pthread,        \* per producer: position in producer_thread
    cthread,        \* per consumer: position in consumer_thread
    enable_batching,\* RuntimeConfig::enable_batching
    stats,          \* g_stats: the Stats counters
    attempted,      \* history: order ids try_push was called with, in order
    shutdown_batch, \* history: batch_buffer_ when shutdown_system flushed
    reported,       \* the final statistics once printed, else <<>>
    send_results,   \* history: what the transport returned, per callback call
    tthread,        \* the thread calling size(): telemetry_logger_thread
    timed           \* push_with_timeout's and pop_with_timeout's locals

ringVars == <<capacity_, ring_state, head_, tail_, buffer_,
              num_producers, num_consumers, prod, cons,
              pushed, popped, streak, streak_valid, streak_failed>>

batcherVars == <<batch_buffer_, batch_size_threshold_, timeout_,
                 first_order_time_, has_orders_, now, flushes, added,
                 last_op, last_ret, last_sends, run, bcall>>

transportVars == <<network_type, sim_initialized, drop_rate_, max_retries_,
                   tcp_sim, udp_sim, shm_sim, num_senders, snd>>

systemVars == <<g_running, g_shutdown_requested, main_pc, join_index,
                pthread, cthread, enable_batching, stats, attempted,
                shutdown_batch, reported, send_results>>

telemetryVars == <<tthread>>

timedVars == <<timed>>

vars == <<ringVars, batcherVars, transportVars, systemVars, telemetryVars,
          timedVars>>

\* ------------------------------------------------------------ arithmetic
WordModulus == 2 ^ WordBits

\* size_t subtraction (wraps).
WordSub(a, b) == (a - b) % WordModulus

\* size_t addition (wraps).
WordAdd(a, b) == (a + b) % WordModulus

RECURSIVE BitAnd(_, _)
BitAnd(a, b) ==
    IF a = 0 \/ b = 0 THEN 0
    ELSE (a % 2) * (b % 2) + 2 * BitAnd(a \div 2, b \div 2)

IsPowerOfTwo(c) == \E k \in 0..WordBits : c = 2 ^ k

\* ----------------------------------------------------------------- orders
DefaultOrder == [order_id |-> 0, quantity |-> 0]

MakeOrder(id) == [order_id |-> id, quantity |-> 1]

Producers == 0..(num_producers - 1)

Consumers == 0..(num_consumers - 1)

\* ------------------------------------------------------------------- ring
\* The constructor's assert: (capacity & (capacity - 1)) == 0.
CapacityAssertHolds(c) == BitAnd(c, WordSub(c, 1)) = 0

\* The outcomes of constructing a ring: the assert aborts the process when it
\* fails, unless the build compiles it out (NDEBUG).
ConstructRing(c) ==
    IF CapacityAssertHolds(c) THEN {"constructed"}
    ELSE {"aborted", "constructed"}

\* (index + 1) & (capacity_ - 1), try_push's next_head.
NextHeadMissingMask(current_head) == WordAdd(current_head, 1)

NextHead(current_head) ==
    BitAnd(WordAdd(current_head, 1), WordSub(capacity_, 1))

\* (current_tail + 1) & (capacity_ - 1), try_pop's next_tail.
NextTailMissingMask(current_tail) == WordAdd(current_tail, 1)

NextTail(current_tail) ==
    BitAnd(WordAdd(current_tail, 1), WordSub(capacity_, 1))

\* try_push's full test.
PushSeesFullNever(next_head, current_tail) == FALSE

PushSeesFull(next_head, current_tail) == next_head = current_tail

\* try_pop's empty test.
PopSeesEmptyNever(current_tail, current_head) == FALSE

PopSeesEmpty(current_tail, current_head) == current_tail = current_head

empty == head_ = tail_

full == BitAnd(WordAdd(head_, 1), WordSub(capacity_, 1)) = tail_

\* head - tail without the mask.
sizeMissingMask == WordSub(head_, tail_)

size == BitAnd(WordSub(head_, tail_), WordSub(capacity_, 1))

RingUsable == ring_state = "constructed"

IdleProducer ==
    [pc |-> "idle", current_head |-> 0, next_head |-> 0, current_tail |-> 0,
     item |-> DefaultOrder, ret |-> "none", order_count |-> 0]

IdleConsumer ==
    [pc |-> "idle", current_tail |-> 0, current_head |-> 0,
     item |-> DefaultOrder, ret |-> "none"]

InitRing(np, nc) ==
    /\ capacity_ \in 0..MaxCapacity
    /\ ring_state \in ConstructRing(capacity_)
    /\ head_ = 0
    /\ tail_ = 0
    /\ buffer_ = [i \in 0..(capacity_ - 1) |-> DefaultOrder]
    /\ num_producers = np
    /\ num_consumers = nc
    /\ prod = [p \in 0..(np - 1) |-> IdleProducer]
    /\ cons = [c \in 0..(nc - 1) |-> IdleConsumer]
    /\ pushed = <<>>
    /\ popped = <<>>
    /\ streak = 0
    /\ streak_valid = TRUE
    /\ streak_failed = FALSE

ringConfig == <<capacity_, num_producers, num_consumers>>

streakVars == <<streak, streak_valid, streak_failed>>

\* try_push(item), lines 42-43: head_.load, next_head.
TryPushLoadHeadOf(p, item) ==
    /\ RingUsable
    /\ prod[p].pc = "idle"
    /\ prod' = [prod EXCEPT ![p] =
                  [@ EXCEPT !.pc = "push_load_tail",
                            !.item = item,
                            !.current_head = head_,
                            !.next_head = NextHead(head_)]]
    /\ UNCHANGED <<ringConfig, ring_state, head_, tail_, buffer_,
                   cons, pushed, popped, streakVars>>

\* try_push is called with the caller's next order.
TryPushLoadHead(p) ==
    /\ prod[p].order_count < MaxOrders
    /\ TryPushLoadHeadOf(p, MakeOrder(p * IdBase + prod[p].order_count))

\* What try_push leaves in the caller when it returns.
PushReturn(l, r) ==
    [l EXCEPT !.pc = "idle", !.ret = r, !.current_head = 0, !.next_head = 0,
              !.current_tail = 0, !.order_count = @ + 1]

\* try_push, lines 44-49: tail_.load and the full test.
TryPushLoadTail(p) ==
    /\ RingUsable
    /\ prod[p].pc = "push_load_tail"
    /\ IF PushSeesFull(prod[p].next_head, tail_)
       THEN /\ prod' = [prod EXCEPT ![p] = PushReturn(@, FALSE)]
            /\ streak_failed' = (streak_valid \/ streak_failed)
       ELSE /\ prod' = [prod EXCEPT ![p] =
                          [@ EXCEPT !.pc = "push_write",
                                    !.current_tail = tail_]]
            /\ UNCHANGED streak_failed
    /\ UNCHANGED <<ringConfig, ring_state, head_, tail_, buffer_,
                   cons, pushed, popped, streak, streak_valid>>

\* try_push, line 52: buffer_[current_head] = item.  A store outside the
\* array is undefined behaviour: nothing is known of the process after it.
TryPushWrite(p) ==
    /\ RingUsable
    /\ prod[p].pc = "push_write"
    /\ IF prod[p].current_head \in DOMAIN buffer_
       THEN /\ buffer_' = [buffer_ EXCEPT ![prod[p].current_head] = prod[p].item]
            /\ prod' = [prod EXCEPT ![p].pc = "push_store_head"]
            /\ UNCHANGED ring_state
       ELSE /\ ring_state' = "undefined"
            /\ UNCHANGED <<buffer_, prod>>
    /\ UNCHANGED <<ringConfig, head_, tail_, cons, pushed, popped, streakVars>>

\* try_push, lines 55-56: head_.store(next_head) and return true.
TryPushStoreHead(p) ==
    /\ RingUsable
    /\ prod[p].pc = "push_store_head"
    /\ head_' = prod[p].next_head
    /\ pushed' = Append(pushed, prod[p].item)
    /\ streak' = IF streak_valid THEN streak + 1 ELSE streak
    /\ prod' = [prod EXCEPT ![p] = PushReturn(@, TRUE)]
    /\ UNCHANGED <<ringConfig, ring_state, tail_, buffer_, cons,
                   popped, streak_valid, streak_failed>>

\* try_pop, line 61: the caller's default-constructed output, tail_.load.
TryPopLoadTail(c) ==
    /\ RingUsable
    /\ cons[c].pc = "idle"
    /\ cons' = [cons EXCEPT ![c] =
                  [@ EXCEPT !.pc = "pop_load_head",
                            !.item = DefaultOrder,
                            !.current_tail = tail_]]
    /\ UNCHANGED <<ringConfig, ring_state, head_, tail_, buffer_,
                   prod, pushed, popped, streakVars>>

\* What try_pop leaves in the caller when it returns.
PopReturn(l, r) ==
    [l EXCEPT !.pc = "idle", !.ret = r, !.current_tail = 0, !.current_head = 0]

\* try_pop, lines 62-67: head_.load and the empty test.
TryPopLoadHead(c) ==
    /\ RingUsable
    /\ cons[c].pc = "pop_load_head"
    /\ IF PopSeesEmpty(cons[c].current_tail, head_)
       THEN cons' = [cons EXCEPT ![c] = PopReturn(@, FALSE)]
       ELSE cons' = [cons EXCEPT ![c] =
                       [@ EXCEPT !.pc = "pop_read", !.current_head = head_]]
    /\ UNCHANGED <<ringConfig, ring_state, head_, tail_, buffer_,
                   prod, pushed, popped, streakVars>>

\* try_pop, line 70: item = buffer_[current_tail].  A load outside the
\* array is undefined behaviour: nothing is known of the process after it.
TryPopRead(c) ==
    /\ RingUsable
    /\ cons[c].pc = "pop_read"
    /\ IF cons[c].current_tail \in DOMAIN buffer_
       THEN /\ cons' = [cons EXCEPT ![c] =
                          [@ EXCEPT !.pc = "pop_store_tail",
                                    !.item = buffer_[cons[c].current_tail]]]
            /\ UNCHANGED ring_state
       ELSE /\ ring_state' = "undefined"
            /\ UNCHANGED cons
    /\ UNCHANGED <<ringConfig, head_, tail_, buffer_, prod, pushed, popped,
                   streakVars>>

\* try_pop, lines 73-75: tail_.store(next_tail) and return true.
TryPopStoreTail(c) ==
    /\ RingUsable
    /\ cons[c].pc = "pop_store_tail"
    /\ tail_' = NextTail(cons[c].current_tail)
    /\ popped' = Append(popped, cons[c].item)
    /\ cons' = [cons EXCEPT ![c] = PopReturn(@, TRUE)]
    /\ streak' = 0
    /\ streak_valid' = (head_ = tail_')
    /\ streak_failed' = FALSE
    /\ UNCHANGED <<ringConfig, ring_state, head_, buffer_, prod,
                   pushed>>

\* ------------------------------------------------------ timed ring helpers
\* OrderRingBuffer::push_with_timeout and pop_with_timeout, one thread
\* calling each.  Time is counted in the units of the helpers' sleep:
\* remaining is the time left until the call's deadline (end - now) at the
\* thread's last reading of the clock.  The clock never runs backwards, and
\* sleep_for(1us) returns after at least one unit.
IdleTimed ==
    [pc |-> "idle", remaining |-> 0, ret |-> FALSE, calls |-> 0,
     order |-> DefaultOrder, succeeded |-> FALSE, failed |-> FALSE,
     entry_len |-> 0, entry_index |-> 0, entry_buffer |-> <<>>]

\* No thread calls the timed helpers.
InitNoTimed ==
    timed = [push |-> [IdleTimed EXCEPT !.pc = "none"],
             pop |-> [IdleTimed EXCEPT !.pc = "none"]]

InitTimed == timed = [push |-> IdleTimed, pop |-> IdleTimed]

\* The loop test: high_resolution_clock::now() < end.
DeadlineNeverReached(remaining) == TRUE
DeadlineNotReached(remaining) == remaining > 0

\* A call's record once the loop test has read the clock: the loop's body
\* is entered, or the call returns false.
AfterDeadlineTest(l, left) ==
    IF DeadlineNotReached(left)
    THEN [l EXCEPT !.pc = "try", !.remaining = left]
    ELSE [l EXCEPT !.pc = "returned", !.remaining = left, !.ret = FALSE]

\* A call's record after a step of its try_push or try_pop attempt that
\* left the attempt at position pc with return value ret.
AfterAttemptStep(l, pc, ret) ==
    IF pc # "idle" THEN l
    ELSE IF ret = TRUE
         THEN [l EXCEPT !.pc = "returned", !.ret = TRUE, !.succeeded = TRUE]
         ELSE [l EXCEPT !.pc = "sleep", !.failed = TRUE]

\* ---- push_with_timeout(order, timeout)
\* Entry: start = now(), end = start + timeout.
TimedPushCall ==
    /\ RingUsable
    /\ timed.push.pc \in {"idle", "returned"}
    /\ timed.push.calls < MaxTimedCalls
    /\ \E timeout \in 0..MaxTimeout :
         /\ prod[0].order_count + timeout <= MaxOrders
         /\ timed' = [timed EXCEPT !.push =
                         [IdleTimed EXCEPT !.pc = "test",
                                           !.remaining = timeout,
                                           !.calls = timed.push.calls + 1,
                                           !.order = MakeOrder(timed.push.calls),
                                           !.entry_len = Len(pushed),
                                           !.entry_index = head_,
                                           !.entry_buffer = buffer_]]

\* while (now() < end): the clock is read, some time having passed.
TimedPushTest ==
    /\ timed.push.pc = "test"
    /\ \E left \in 0..timed.push.remaining :
         timed' = [timed EXCEPT !.push = AfterDeadlineTest(@, left)]

\* if (try_push(order)): the attempt begins.
TimedPushTry ==
    /\ timed.push.pc = "try"
    /\ TryPushLoadHeadOf(0, timed.push.order)
    /\ timed' = [timed EXCEPT !.push.pc = "trying"]

\* The call's position after a step of the attempt: return true, or sleep.
TimedPushIn ==
    timed' = [timed EXCEPT !.push =
                 AfterAttemptStep(@, prod'[0].pc, prod'[0].ret)]

TimedPushLoadTail ==
    /\ timed.push.pc = "trying"
    /\ TryPushLoadTail(0)
    /\ TimedPushIn

TimedPushWrite ==
    /\ timed.push.pc = "trying"
    /\ TryPushWrite(0)
    /\ TimedPushIn

TimedPushStoreHead ==
    /\ timed.push.pc = "trying"
    /\ TryPushStoreHead(0)
    /\ TimedPushIn

\* sleep_for(microseconds(1)): at least one unit passes.
TimedPushSleep ==
    /\ timed.push.pc = "sleep"
    /\ \E left \in 0..(timed.push.remaining - 1) :
         timed' = [timed EXCEPT !.push = [@ EXCEPT !.pc = "test",
                                                  !.remaining = left]]

\* ---- pop_with_timeout(order, timeout)
TimedPopCall ==
    /\ RingUsable
    /\ timed.pop.pc \in {"idle", "returned"}
    /\ timed.pop.calls < MaxTimedCalls
    /\ \E timeout \in 0..MaxTimeout :
         timed' = [timed EXCEPT !.pop =
                      [IdleTimed EXCEPT !.pc = "test",
                                        !.remaining = timeout,
                                        !.calls = timed.pop.calls + 1,
                                        !.entry_len = Len(popped),
                                        !.entry_index = tail_,
                                        !.entry_buffer = buffer_]]

TimedPopTest ==
    /\ timed.pop.pc = "test"
    /\ \E left \in 0..timed.pop.remaining :
         timed' = [timed EXCEPT !.pop = AfterDeadlineTest(@, left)]

\* if (try_pop(order)): the attempt begins.
TimedPopTry ==
    /\ timed.pop.pc = "try"
    /\ TryPopLoadTail(0)
    /\ timed' = [timed EXCEPT !.pop.pc = "trying"]

\* The call's position after a step of the attempt; order is the caller's
\* output argument.
TimedPopIn ==
    timed' = [timed EXCEPT !.pop =
                 [AfterAttemptStep(@, cons'[0].pc, cons'[0].ret)
                     EXCEPT !.order = cons'[0].item]]

TimedPopLoadHead ==
    /\ timed.pop.pc = "trying"
    /\ TryPopLoadHead(0)
    /\ TimedPopIn

TimedPopRead ==
    /\ timed.pop.pc = "trying"
    /\ TryPopRead(0)
    /\ TimedPopIn

TimedPopStoreTail ==
    /\ timed.pop.pc = "trying"
    /\ TryPopStoreTail(0)
    /\ TimedPopIn

TimedPopSleep ==
    /\ timed.pop.pc = "sleep"
    /\ \E left \in 0..(timed.pop.remaining - 1) :
         timed' = [timed EXCEPT !.pop = [@ EXCEPT !.pc = "test",
                                                 !.remaining = left]]

\* ---------------------------------------------------------------- batcher
\* The Batcher as constructed by initialize_system: with a send callback.
\* Its mutable members, as one value.
BatcherState ==
    [buffer |-> batch_buffer_, has_orders |-> has_orders_,
     first_order_time |-> first_order_time_, flushes |-> flushes]

\* flush_batch, line 90: batch_buffer_.clear().
BufferNotCleared(buffer) == buffer

BufferCleared(buffer) == <<>>

\* flush_batch: nothing on an empty buffer; else the callback gets the buffer
\* and its age, and the buffer and has_orders_ are reset.
FlushBatch(b, t) ==
    IF b.buffer = <<>> THEN b
    ELSE [b EXCEPT !.flushes = Append(@, [orders |-> b.buffer,
                                         latency_us |-> t - b.first_order_time]),
                   !.buffer = BufferCleared(@),
                   !.has_orders = FALSE]

\* add_order, line 35: batch_buffer_.size() >= batch_size_threshold_.
SizeThresholdExceeded(length, threshold) == length > threshold

SizeThresholdReached(length, threshold) == length >= threshold

\* check_timeout, line 49: elapsed >= timeout_.
TimeoutExceeded(elapsed, timeout) == elapsed > timeout

TimeoutElapsed(elapsed, timeout) == elapsed >= timeout

\* add_order's effect on the members.  t is the clock reading: an operation
\* is shorter than one tick, so its two readings of the clock (lines 28 and
\* 81) agree.
AddOrderTo(b, order, t) ==
    LET started == IF ~b.has_orders
                   THEN [b EXCEPT !.first_order_time = t, !.has_orders = TRUE]
                   ELSE b
        pushed_back == [started EXCEPT !.buffer = Append(@, order)]
    IN  IF SizeThresholdReached(Len(pushed_back.buffer), batch_size_threshold_)
        THEN FlushBatch(pushed_back, t)
        ELSE pushed_back

\* check_timeout's effect on the members and its return value.
CheckTimeoutOn(b, t) ==
    IF ~b.has_orders \/ b.buffer = <<>>
    THEN [state |-> b, ret |-> FALSE]
    ELSE IF TimeoutElapsed(t - b.first_order_time, timeout_)
         THEN [state |-> FlushBatch(b, t), ret |-> TRUE]
         ELSE [state |-> b, ret |-> FALSE]

\* force_flush's effect on the members.
ForceFlushSkipped(b, t) == b
ForceFlushOn(b, t) ==
    IF b.buffer # <<>> THEN FlushBatch(b, t) ELSE b

\* The members take the values of b.
BatcherBecomes(b) ==
    /\ batch_buffer_' = b.buffer
    /\ has_orders_' = b.has_orders
    /\ first_order_time_' = b.first_order_time
    /\ flushes' = b.flushes
    /\ last_sends' = Len(b.flushes) - Len(flushes)

\* A thread that is in no call on the shared Batcher.
IdleCall ==
    [pc |-> "idle", op |-> "none", order |-> DefaultOrder, count |-> 0,
     done |-> 0]

InitBatcherShared(batch_sizes, timeouts, shared_callers) ==
    /\ batch_size_threshold_ \in batch_sizes
    /\ timeout_ \in timeouts
    /\ batch_buffer_ = <<>>
    /\ has_orders_ = FALSE
    /\ first_order_time_ = 0
    /\ now = 0
    /\ flushes = <<>>
    /\ added = 0
    /\ last_op = "none"
    /\ last_ret = FALSE
    /\ last_sends = 0
    /\ run = <<>>
    /\ bcall = [t \in 0..(shared_callers - 1) |-> IdleCall]

\* The Batcher as one thread alone calls it.
InitBatcher(batch_sizes, timeouts) == InitBatcherShared(batch_sizes, timeouts, 0)

\* The clock advances between operations.
Tick ==
    /\ now < MaxTime
    /\ now' = now + 1
    /\ UNCHANGED <<batch_buffer_, batch_size_threshold_, timeout_,
                   first_order_time_, has_orders_, flushes, added,
                   last_op, last_ret, last_sends, run, bcall>>

\* Batcher::add_order, called with the next order.
AddOrder ==
    /\ added < MaxAdds
    /\ BatcherBecomes(AddOrderTo(BatcherState, MakeOrder(added + 1), now))
    /\ added' = added + 1
    /\ last_op' = "add_order"
    /\ run' = IF batch_buffer_ = <<>> THEN <<MakeOrder(added + 1)>>
              ELSE Append(run, MakeOrder(added + 1))
    /\ UNCHANGED <<batch_size_threshold_, timeout_, now, last_ret, bcall>>

\* Batcher::check_timeout.
CheckTimeout ==
    /\ BatcherBecomes(CheckTimeoutOn(BatcherState, now).state)
    /\ last_ret' = CheckTimeoutOn(BatcherState, now).ret
    /\ last_op' = "check_timeout"
    /\ UNCHANGED <<batch_size_threshold_, timeout_, now, added, run, bcall>>

\* Batcher::force_flush.
ForceFlush ==
    /\ BatcherBecomes(ForceFlushOn(BatcherState, now))
    /\ last_op' = "force_flush"
    /\ UNCHANGED <<batch_size_threshold_, timeout_, now, added, last_ret, run,
                   bcall>>

\* ------------------------------------------------- network simulators
\* The three transports of network_sim/: TCPSimulator::send_reliable,
\* UDPSimulator::send_fast and SharedMemorySimulator::send_instant, stepped
\* at the granularity of one atomic operation on a counter.  A draw of the
\* random engine is a choice among the outcomes the configured rate allows;
\* a sleep changes no state.

\* drop_dist_(rng_) is uniform on [0, 1): the draws a drop rate allows.
\* "never" is a rate of 0, "always" a rate of 1 or more.
DropRates == {"never", "sometimes", "always"}

DropDraws(rate) ==
    CASE rate = "never" -> {FALSE}
      [] rate = "always" -> {TRUE}
      [] OTHER -> {FALSE, TRUE}

Senders == 0..(num_senders - 1)

\* UINT64_MAX, the value min_delay_ns_ starts from.  It is only ever compared
\* with measured delays, so any value above all of them stands for it.
Uint64Max == MaxDelay + 1

IdleSender ==
    [pc |-> "idle", ret |-> FALSE, path |-> "none", calls |-> 0,
     retries |-> 0, attempts |-> 0, dropped |-> FALSE,
     delay |-> 0, noise |-> 0, current_min |-> 0, current_max |-> 0,
     entry_sent |-> 0, entry_dropped |-> 0, entry_retx |-> 0,
     entry_delay |-> 0,
     own_sent |-> 0, own_dropped |-> 0, own_retx |-> 0,
     seen_min |-> Uint64Max, seen_max |-> 0,
     snap_sent |-> 0, snap_dropped |-> 0, snap_delay |-> 0]

\* A sender's record at the start of a call.  seen_min and seen_max, the
\* least and the greatest delay the thread has measured in send_instant,
\* outlive the call.
EnterCall(s) ==
    [IdleSender EXCEPT !.calls = snd[s].calls + 1,
                       !.seen_min = snd[s].seen_min,
                       !.seen_max = snd[s].seen_max]

\* counter++ on a std::atomic: one indivisible read-modify-write of the
\* current value, whatever value the thread last saw.
FetchAddLostUpdate(current, seen) == seen + 1
FetchAdd(current, seen) == current + 1

InitTransport(types, senders) ==
    /\ network_type \in types
    /\ sim_initialized = FALSE
    /\ drop_rate_ \in IF network_type = "SHM" THEN {"never"} ELSE DropRates
    /\ max_retries_ \in IF network_type = "TCP" THEN 0..MaxRetries ELSE {0}
    /\ tcp_sim = [active_connections_ |-> 0, dropped_packets_ |-> 0,
                  retransmissions_ |-> 0]
    /\ udp_sim = [packets_sent_ |-> 0, packets_dropped_ |-> 0,
                  total_delay_us_ |-> 0]
    /\ shm_sim = [messages_sent_ |-> 0, total_delay_ns_ |-> 0,
                  min_delay_ns_ |-> Uint64Max, max_delay_ns_ |-> 0]
    /\ num_senders \in senders
    /\ snd = [s \in 0..(num_senders - 1) |-> IdleSender]

\* init_tcp_simulator / init_udp_simulator / init_shm_simulator.
InitSimulator ==
    /\ ~sim_initialized
    /\ sim_initialized' = TRUE
    /\ UNCHANGED <<network_type, drop_rate_, max_retries_, tcp_sim, udp_sim,
                   shm_sim, num_senders, snd>>

transportConfig == <<network_type, drop_rate_, max_retries_, num_senders>>

\* tcp_send_orders / udp_send_orders / shm_send_orders before the
\* simulator exists: false, nothing counted.
SendUninitialized(s) ==
    /\ snd[s].pc = "idle"
    /\ snd[s].calls < MaxSends
    /\ ~sim_initialized
    /\ snd' = [snd EXCEPT ![s] = [EnterCall(s) EXCEPT
                                    !.ret = FALSE,
                                    !.path = "uninitialized"]]
    /\ UNCHANGED <<transportConfig, sim_initialized, tcp_sim, udp_sim, shm_sim>>

\* ---- TCPSimulator::send_reliable
\* The loop test and the test before a retransmission.
RetriesRemainOneMore(retries, max_retries) == retries <= max_retries + 1
RetriesRemainStrict(retries, max_retries) == retries < max_retries
RetriesRemain(retries, max_retries) == retries <= max_retries

\* active_connections_-- on the way out of send_reliable.
ConnectionLeftOpen(active) == active
ConnectionClosed(active) == active - 1

\* Entry: active_connections_++.
TcpSendOrders(s) ==
    /\ network_type = "TCP"
    /\ sim_initialized
    /\ snd[s].pc = "idle"
    /\ snd[s].calls < MaxSends
    /\ tcp_sim' = [tcp_sim EXCEPT !.active_connections_ = @ + 1]
    /\ snd' = [snd EXCEPT ![s] = [EnterCall(s) EXCEPT
                    !.pc = "tcp_loop",
                    !.path = "sent",
                    !.entry_dropped = tcp_sim.dropped_packets_,
                    !.entry_retx = tcp_sim.retransmissions_]]
    /\ UNCHANGED <<transportConfig, sim_initialized, udp_sim, shm_sim>>

\* The loop test, then one delivery attempt: delivered (active_connections_--
\* and return true), dropped (dropped_packets_++, retries++), or, the test
\* failing, active_connections_-- and return false.
TcpAttempt(s) ==
    /\ snd[s].pc = "tcp_loop"
    /\ IF RetriesRemain(snd[s].retries, max_retries_)
       THEN \E drop \in DropDraws(drop_rate_) :
              IF drop
              THEN /\ tcp_sim' = [tcp_sim EXCEPT !.dropped_packets_ =
                          FetchAdd(@, snd[s].entry_dropped + snd[s].own_dropped)]
                   /\ snd' = [snd EXCEPT ![s] = [@ EXCEPT
                                  !.pc = "tcp_dropped",
                                  !.attempts = @ + 1,
                                  !.retries = @ + 1,
                                  !.own_dropped = @ + 1]]
              ELSE /\ tcp_sim' = [tcp_sim EXCEPT !.active_connections_ =
                                                      ConnectionClosed(@)]
                   /\ snd' = [snd EXCEPT ![s] = [@ EXCEPT
                                  !.pc = "idle",
                                  !.attempts = @ + 1,
                                  !.ret = TRUE]]
       ELSE /\ tcp_sim' = [tcp_sim EXCEPT !.active_connections_ =
                                                      ConnectionClosed(@)]
            /\ snd' = [snd EXCEPT ![s] = [@ EXCEPT !.pc = "idle",
                                                    !.ret = FALSE]]
    /\ UNCHANGED <<transportConfig, sim_initialized, udp_sim, shm_sim>>

\* After a drop: retransmissions_++ when another attempt follows.
TcpAfterDrop(s) ==
    /\ snd[s].pc = "tcp_dropped"
    /\ IF RetriesRemain(snd[s].retries, max_retries_)
       THEN /\ tcp_sim' = [tcp_sim EXCEPT !.retransmissions_ =
                   FetchAdd(@, snd[s].entry_retx + snd[s].own_retx)]
            /\ snd' = [snd EXCEPT ![s] = [@ EXCEPT !.pc = "tcp_loop",
                                                    !.own_retx = @ + 1]]
       ELSE /\ snd' = [snd EXCEPT ![s] = [@ EXCEPT !.pc = "tcp_loop"]]
            /\ UNCHANGED tcp_sim
    /\ UNCHANGED <<transportConfig, sim_initialized, udp_sim, shm_sim>>

\* ---- UDPSimulator::send_fast
\* delay_us = std::max(1, delay_us).
ClampDelayMissing(raw) == raw
ClampDelay(raw) == IF raw < 1 THEN 1 ELSE raw

\* base delay times jitter plus noise, before the clamp.
RawDelays == (0 - 1)..MaxDelay

\* Entry: packets_sent_++.
UdpSendOrders(s) ==
    /\ network_type = "UDP"
    /\ sim_initialized
    /\ snd[s].pc = "idle"
    /\ snd[s].calls < MaxSends
    /\ udp_sim' = [udp_sim EXCEPT !.packets_sent_ =
                      FetchAdd(@, snd[s].entry_sent + snd[s].own_sent)]
    /\ snd' = [snd EXCEPT ![s] = [EnterCall(s) EXCEPT
                    !.pc = "udp_draw",
                    !.path = "sent",
                    !.entry_sent = udp_sim.packets_sent_,
                    !.entry_dropped = udp_sim.packets_dropped_,
                    !.entry_delay = udp_sim.total_delay_us_,
                    !.own_sent = 1]]
    /\ UNCHANGED <<transportConfig, sim_initialized, tcp_sim, shm_sim>>

\* The drop draw: dropped (packets_dropped_++ and return false) or the
\* delay is drawn and clamped.
UdpDraw(s) ==
    /\ snd[s].pc = "udp_draw"
    /\ \E drop \in DropDraws(drop_rate_), raw \in RawDelays :
         IF drop
         THEN /\ udp_sim' = [udp_sim EXCEPT !.packets_dropped_ =
                     FetchAdd(@, snd[s].entry_dropped)]
              /\ snd' = [snd EXCEPT ![s] = [@ EXCEPT
                             !.pc = "idle",
                             !.dropped = TRUE,
                             !.own_dropped = 1,
                             !.ret = FALSE]]
         ELSE /\ snd' = [snd EXCEPT ![s] = [@ EXCEPT
                             !.pc = "udp_sleep",
                             !.delay = ClampDelay(raw)]]
              /\ UNCHANGED udp_sim
    /\ UNCHANGED <<transportConfig, sim_initialized, tcp_sim, shm_sim>>

\* After the sleep: total_delay_us_ += delay_us and return true.
UdpAddDelay(s) ==
    /\ snd[s].pc = "udp_sleep"
    /\ udp_sim' = [udp_sim EXCEPT !.total_delay_us_ = @ + snd[s].delay]
    /\ snd' = [snd EXCEPT ![s] = [@ EXCEPT
                    !.pc = "idle",
                    !.ret = TRUE]]
    /\ UNCHANGED <<transportConfig, sim_initialized, tcp_sim, shm_sim>>

\* ---- UDPSimulator::get_stats, through get_udp_stats
\* stats_mutex_ is held by the thread that is inside get_stats; send_fast
\* never locks it.
StatsMutexHeld ==
    \E s \in Senders :
        snd[s].pc \in {"stats_load_sent", "stats_load_dropped",
                       "stats_load_delay"}

\* Line 88: the denominator of avg_delay_us, of the two values loaded.
AvgDelayDenominator(sent, dropped) == sent - dropped

\* Line 89: actual_drop_rate, as numerator over denominator.
ActualDropRate(sent, dropped) ==
    IF sent > 0 THEN [num |-> dropped, den |-> sent]
    ELSE [num |-> 0, den |-> 1]

\* get_udp_stats before the simulator exists: a snapshot of zeros.
GetStatsUninitialized(s) ==
    /\ network_type = "UDP"
    /\ ~sim_initialized
    /\ snd[s].pc = "idle"
    /\ snd[s].calls < MaxSends
    /\ snd' = [snd EXCEPT ![s] = [EnterCall(s) EXCEPT !.path = "stats"]]
    /\ UNCHANGED <<transportConfig, sim_initialized, tcp_sim, udp_sim, shm_sim>>

\* Line 83: std::lock_guard lock(stats_mutex_).
GetStatsLock(s) ==
    /\ network_type = "UDP"
    /\ sim_initialized
    /\ snd[s].pc = "idle"
    /\ snd[s].calls < MaxSends
    /\ ~StatsMutexHeld
    /\ snd' = [snd EXCEPT ![s] = [EnterCall(s) EXCEPT
                    !.pc = "stats_load_sent",
                    !.path = "stats"]]
    /\ UNCHANGED <<transportConfig, sim_initialized, tcp_sim, udp_sim, shm_sim>>

\* Line 84: int sent = packets_sent_.load().
GetStatsLoadSent(s) ==
    /\ snd[s].pc = "stats_load_sent"
    /\ snd' = [snd EXCEPT ![s] = [@ EXCEPT
                    !.pc = "stats_load_dropped",
                    !.snap_sent = udp_sim.packets_sent_]]
    /\ UNCHANGED <<transportConfig, sim_initialized, tcp_sim, udp_sim, shm_sim>>

\* Line 85: int dropped = packets_dropped_.load().
GetStatsLoadDropped(s) ==
    /\ snd[s].pc = "stats_load_dropped"
    /\ snd' = [snd EXCEPT ![s] = [@ EXCEPT
                    !.pc = "stats_load_delay",
                    !.snap_dropped = udp_sim.packets_dropped_]]
    /\ UNCHANGED <<transportConfig, sim_initialized, tcp_sim, udp_sim, shm_sim>>

\* Lines 86-98: int total_delay = total_delay_us_.load(); the snapshot is
\* built of the three values and returned, and the mutex released.
GetStatsLoadDelay(s) ==
    /\ snd[s].pc = "stats_load_delay"
    /\ snd' = [snd EXCEPT ![s] = [@ EXCEPT
                    !.pc = "idle",
                    !.snap_delay = udp_sim.total_delay_us_]]
    /\ UNCHANGED <<transportConfig, sim_initialized, tcp_sim, udp_sim, shm_sim>>

\* ---- SharedMemorySimulator::send_instant
\* The value send_instant returns.
SendInstantResultNoiseFails(noise) == noise >= 0
SendInstantResult(noise) == TRUE

NoiseDraws == {0 - 1, 0, 1}

\* Entry: messages_sent_++.
ShmSendOrders(s) ==
    /\ network_type = "SHM"
    /\ sim_initialized
    /\ snd[s].pc = "idle"
    /\ snd[s].calls < MaxSends
    /\ shm_sim' = [shm_sim EXCEPT !.messages_sent_ =
                      FetchAdd(@, snd[s].entry_sent + snd[s].own_sent)]
    /\ snd' = [snd EXCEPT ![s] = [EnterCall(s) EXCEPT
                    !.pc = "shm_noise",
                    !.path = "sent",
                    !.entry_sent = shm_sim.messages_sent_,
                    !.own_sent = 1]]
    /\ UNCHANGED <<transportConfig, sim_initialized, tcp_sim, udp_sim>>

\* The noise draw, the sleep when it is positive, and the measured delay,
\* which is at least the time slept.
ShmNoise(s) ==
    /\ snd[s].pc = "shm_noise"
    /\ \E noise \in NoiseDraws, delay \in 0..MaxDelay :
         /\ noise > 0 => delay >= noise
         /\ snd' = [snd EXCEPT ![s] = [@ EXCEPT
                        !.pc = "shm_total",
                        !.noise = noise,
                        !.delay = delay,
                        !.seen_min = IF delay < @ THEN delay ELSE @,
                        !.seen_max = IF delay > @ THEN delay ELSE @]]
    /\ UNCHANGED <<transportConfig, sim_initialized, tcp_sim, udp_sim, shm_sim>>

\* total_delay_ns_ += delay_ns, then current_min = min_delay_ns_.load().
ShmAddTotal(s) ==
    /\ snd[s].pc = "shm_total"
    /\ shm_sim' = [shm_sim EXCEPT !.total_delay_ns_ = @ + snd[s].delay]
    /\ snd' = [snd EXCEPT ![s] = [@ EXCEPT !.pc = "shm_load_min"]]
    /\ UNCHANGED <<transportConfig, sim_initialized, tcp_sim, udp_sim>>

ShmLoadMin(s) ==
    /\ snd[s].pc = "shm_load_min"
    /\ snd' = [snd EXCEPT ![s] = [@ EXCEPT !.pc = "shm_cas_min",
                                            !.current_min = shm_sim.min_delay_ns_]]
    /\ UNCHANGED <<transportConfig, sim_initialized, tcp_sim, udp_sim, shm_sim>>

\* compare_exchange_weak(expected, desired) stores when the atomic still
\* holds the expected value.
CompareExchangeBlind(current, expected) == TRUE
CompareExchange(current, expected) == current = expected

\* One turn of the minimum's loop: the test, then compare_exchange_weak,
\* which stores delay_ns or reloads current_min.  (A spurious failure with
\* the value unchanged reloads the same value: no change of state.)
ShmCasMin(s) ==
    /\ snd[s].pc = "shm_cas_min"
    /\ IF snd[s].delay < snd[s].current_min
       THEN IF CompareExchange(shm_sim.min_delay_ns_, snd[s].current_min)
            THEN /\ shm_sim' = [shm_sim EXCEPT !.min_delay_ns_ = snd[s].delay]
                 /\ snd' = [snd EXCEPT ![s] = [@ EXCEPT !.pc = "shm_load_max"]]
            ELSE /\ snd' = [snd EXCEPT ![s] = [@ EXCEPT
                                !.current_min = shm_sim.min_delay_ns_]]
                 /\ UNCHANGED shm_sim
       ELSE /\ snd' = [snd EXCEPT ![s] = [@ EXCEPT !.pc = "shm_load_max"]]
            /\ UNCHANGED shm_sim
    /\ UNCHANGED <<transportConfig, sim_initialized, tcp_sim, udp_sim>>

ShmLoadMax(s) ==
    /\ snd[s].pc = "shm_load_max"
    /\ snd' = [snd EXCEPT ![s] = [@ EXCEPT !.pc = "shm_cas_max",
                                            !.current_max = shm_sim.max_delay_ns_]]
    /\ UNCHANGED <<transportConfig, sim_initialized, tcp_sim, udp_sim, shm_sim>>

\* One turn of the maximum's loop; leaving it, send_instant returns.
ShmCasMax(s) ==
    /\ snd[s].pc = "shm_cas_max"
    /\ IF snd[s].delay > snd[s].current_max
       THEN IF CompareExchange(shm_sim.max_delay_ns_, snd[s].current_max)
            THEN /\ shm_sim' = [shm_sim EXCEPT !.max_delay_ns_ = snd[s].delay]
                 /\ snd' = [snd EXCEPT ![s] = [@ EXCEPT
                                !.pc = "idle",
                                !.ret = SendInstantResult(snd[s].noise)]]
            ELSE /\ snd' = [snd EXCEPT ![s] = [@ EXCEPT
                                !.current_max = shm_sim.max_delay_ns_]]
                 /\ UNCHANGED shm_sim
       ELSE /\ snd' = [snd EXCEPT ![s] = [@ EXCEPT
                           !.pc = "idle",
                           !.ret = SendInstantResult(snd[s].noise)]]
            /\ UNCHANGED shm_sim
    /\ UNCHANGED <<transportConfig, sim_initialized, tcp_sim, udp_sim>>

\* No simulator is created and no thread sends.
InitNoTransport == InitTransport({"SHM"}, {0})

\* ----------------------------------------------------------- orchestrator
\* main.cpp: the producer and consumer workers, the signal handler and the
\* main thread from the moment the workers are spawned to the final
\* statistics.  A transport's send is taken by its return value only.

\* What a send through the configured transport can return.
SendOutcomes ==
    IF network_type = "SHM" THEN {TRUE} ELSE {TRUE, FALSE}

\* simulate_network_send: the statistics after a send of this batch.
SimulateNetworkSendCountsFailures(st, batch, latency_us, success) ==
    [st EXCEPT !.batches_sent = @ + 1,
               !.total_latency_us = @ + latency_us,
               !.orders_consumed = @ + Len(batch)]

SimulateNetworkSend(st, batch, latency_us, success) ==
    IF success
    THEN [st EXCEPT !.batches_sent = @ + 1,
                    !.total_latency_us = @ + latency_us,
                    !.orders_consumed = @ + Len(batch)]
    ELSE st

\* The worker loops' test: !g_shutdown_requested && g_running.
KeepRunningAlways == TRUE
KeepRunning == ~g_shutdown_requested /\ g_running

\* The threads vector: producers first, then consumers.
NumThreads == num_producers + num_consumers + 1

\* thread.join() returns once the thread's function has returned.
ThreadExitedNotAwaited(i) == TRUE
ThreadExited(i) ==
    IF i < num_producers THEN pthread[i] = "exited"
    ELSE IF i < num_producers + num_consumers
         THEN cthread[i - num_producers] = "exited"
         ELSE tthread.pc = "exited"

\* producer_thread counts an order as produced when try_push returned this.
ProducerCountsEveryAttempt(ret) == TRUE
ProducerCounts(ret) == ret = TRUE

InitSystem(np, nc) ==
    /\ g_running = TRUE
    /\ g_shutdown_requested = FALSE
    /\ main_pc = "wait"
    /\ join_index = 0
    /\ pthread = [p \in 0..(np - 1) |-> "loop"]
    /\ cthread = [c \in 0..(nc - 1) |-> "loop"]
    /\ enable_batching \in BOOLEAN
    /\ stats = [orders_produced |-> 0, orders_consumed |-> 0,
                batches_sent |-> 0, total_latency_us |-> 0]
    /\ attempted = <<>>
    /\ shutdown_batch = <<>>
    /\ reported = <<>>
    /\ send_results = <<>>

\* No worker is spawned.
InitNoSystem ==
    /\ g_running = FALSE
    /\ g_shutdown_requested = FALSE
    /\ main_pc = "done"
    /\ join_index = 0
    /\ pthread = <<>>
    /\ cthread = <<>>
    /\ enable_batching = FALSE
    /\ stats = [orders_produced |-> 0, orders_consumed |-> 0,
                batches_sent |-> 0, total_latency_us |-> 0]
    /\ attempted = <<>>
    /\ shutdown_batch = <<>>
    /\ reported = <<>>
    /\ send_results = <<>>

systemFlags == <<g_running, g_shutdown_requested>>

mainVars == <<main_pc, join_index, shutdown_batch, reported>>

batcherConfig == <<batch_size_threshold_, timeout_>>

batcherHistory == <<added, last_op, last_ret, last_sends, run>>

\* signal_handler.
SignalHandler ==
    /\ main_pc # "done"
    /\ ~g_shutdown_requested
    /\ g_shutdown_requested' = TRUE
    /\ UNCHANGED <<g_running, mainVars, pthread, cthread, enable_batching,
                   stats, attempted, send_results>>

\* ---- producer_thread
\* The loop test.
ProducerLoopTest(p) ==
    /\ pthread[p] = "loop"
    /\ IF KeepRunning
       THEN /\ prod[p].order_count < MaxProduced
            /\ pthread' = [pthread EXCEPT ![p] = "call"]
       ELSE pthread' = [pthread EXCEPT ![p] = "exited"]
    /\ UNCHANGED <<systemFlags, mainVars, cthread, enable_batching, stats,
                   attempted, send_results>>

\* The producer's position after a step of try_push.
ProducerIn(p) ==
    pthread' = [pthread EXCEPT ![p] =
                   IF prod'[p].pc = "idle" THEN "returned" ELSE "pushing"]

\* try_push is called with the next synthesized order.
ProducerTryPushLoadHead(p) ==
    /\ pthread[p] = "call"
    /\ TryPushLoadHead(p)
    /\ ProducerIn(p)
    /\ attempted' = Append(attempted, prod'[p].item.order_id)
    /\ UNCHANGED <<systemFlags, mainVars, cthread, enable_batching, stats,
                   send_results>>

ProducerTryPushLoadTail(p) ==
    /\ pthread[p] = "pushing"
    /\ TryPushLoadTail(p)
    /\ ProducerIn(p)
    /\ UNCHANGED <<systemFlags, mainVars, cthread, enable_batching, stats,
                   attempted, send_results>>

ProducerTryPushWrite(p) ==
    /\ pthread[p] = "pushing"
    /\ TryPushWrite(p)
    /\ ProducerIn(p)
    /\ UNCHANGED <<systemFlags, mainVars, cthread, enable_batching, stats,
                   attempted, send_results>>

ProducerTryPushStoreHead(p) ==
    /\ pthread[p] = "pushing"
    /\ TryPushStoreHead(p)
    /\ ProducerIn(p)
    /\ UNCHANGED <<systemFlags, mainVars, cthread, enable_batching, stats,
                   attempted, send_results>>

\* if (try_push(order)) orders_produced++; then the next turn of the loop.
ProducerCount(p) ==
    /\ pthread[p] = "returned"
    /\ stats' = IF ProducerCounts(prod[p].ret)
                THEN [stats EXCEPT !.orders_produced = @ + 1]
                ELSE stats
    /\ pthread' = [pthread EXCEPT ![p] = "loop"]
    /\ UNCHANGED <<systemFlags, mainVars, cthread, enable_batching, attempted, send_results>>

\* ---- consumer_thread
ConsumerLoopTest(c) ==
    /\ cthread[c] = "loop"
    /\ cthread' = [cthread EXCEPT ![c] =
                      IF KeepRunning THEN "call" ELSE "exited"]
    /\ UNCHANGED <<systemFlags, mainVars, pthread, enable_batching, stats,
                   attempted, send_results>>

\* The consumer's position after a step of try_pop.
ConsumerIn(c) ==
    cthread' = [cthread EXCEPT ![c] =
                   IF cons'[c].pc = "idle" THEN "returned" ELSE "popping"]

ConsumerTryPopLoadTail(c) ==
    /\ cthread[c] = "call"
    /\ TryPopLoadTail(c)
    /\ ConsumerIn(c)
    /\ UNCHANGED <<systemFlags, mainVars, pthread, enable_batching, stats,
                   attempted, send_results>>

ConsumerTryPopLoadHead(c) ==
    /\ cthread[c] = "popping"
    /\ TryPopLoadHead(c)
    /\ ConsumerIn(c)
    /\ UNCHANGED <<systemFlags, mainVars, pthread, enable_batching, stats,
                   attempted, send_results>>

ConsumerTryPopRead(c) ==
    /\ cthread[c] = "popping"
    /\ TryPopRead(c)
    /\ ConsumerIn(c)
    /\ UNCHANGED <<systemFlags, mainVars, pthread, enable_batching, stats,
                   attempted, send_results>>

ConsumerTryPopStoreTail(c) ==
    /\ cthread[c] = "popping"
    /\ TryPopStoreTail(c)
    /\ ConsumerIn(c)
    /\ UNCHANGED <<systemFlags, mainVars, pthread, enable_batching, stats,
                   attempted, send_results>>

\* A Batcher operation of the running system: the members become b and, when
\* the operation flushed, the callback (simulate_network_send) ran.
SystemBatcherBecomes(b) ==
    /\ BatcherBecomes(b)
    /\ IF Len(b.flushes) > Len(flushes)
       THEN \E success \in SendOutcomes :
              /\ stats' = SimulateNetworkSend(stats,
                                              b.flushes[Len(b.flushes)].orders,
                                              b.flushes[Len(b.flushes)].latency_us,
                                              success)
              /\ send_results' = Append(send_results, success)
       ELSE UNCHANGED <<stats, send_results>>

\* try_pop returned false: sleep and loop.
ConsumerNothingPopped(c) ==
    /\ cthread[c] = "returned"
    /\ cons[c].ret = FALSE
    /\ cthread' = [cthread EXCEPT ![c] = "loop"]
    /\ UNCHANGED <<systemFlags, mainVars, pthread, enable_batching, stats,
                   attempted, send_results>>

\* try_pop returned true, batching enabled: g_batcher->add_order(order).
ConsumerAddOrder(c) ==
    /\ cthread[c] = "returned"
    /\ cons[c].ret = TRUE
    /\ enable_batching
    /\ SystemBatcherBecomes(AddOrderTo(BatcherState, cons[c].item, now))
    /\ added' = added + 1
    /\ last_op' = "add_order"
    /\ run' = IF batch_buffer_ = <<>> THEN <<cons[c].item>>
              ELSE Append(run, cons[c].item)
    /\ cthread' = [cthread EXCEPT ![c] = "check_timeout"]
    /\ UNCHANGED <<batcherConfig, now, last_ret, bcall>>
    /\ UNCHANGED <<systemFlags, mainVars, pthread, enable_batching, attempted>>

\* g_batcher->check_timeout(), then sleep and loop.
ConsumerCheckTimeout(c) ==
    /\ cthread[c] = "check_timeout"
    /\ SystemBatcherBecomes(CheckTimeoutOn(BatcherState, now).state)
    /\ last_ret' = CheckTimeoutOn(BatcherState, now).ret
    /\ last_op' = "check_timeout"
    /\ cthread' = [cthread EXCEPT ![c] = "loop"]
    /\ UNCHANGED <<batcherConfig, now, added, run, bcall>>
    /\ UNCHANGED <<systemFlags, mainVars, pthread, enable_batching, attempted>>

\* try_pop returned true, batching disabled: simulate_network_send({order}, 0).
ConsumerSendDirect(c) ==
    /\ cthread[c] = "returned"
    /\ cons[c].ret = TRUE
    /\ ~enable_batching
    /\ \E success \in SendOutcomes :
         /\ stats' = SimulateNetworkSend(stats, <<cons[c].item>>, 0, success)
         /\ send_results' = Append(send_results, success)
    /\ flushes' = Append(flushes, [orders |-> <<cons[c].item>>, latency_us |-> 0])
    /\ cthread' = [cthread EXCEPT ![c] = "loop"]
    /\ UNCHANGED <<batch_buffer_, first_order_time_, has_orders_,
                   batcherConfig, now, batcherHistory, bcall>>
    /\ UNCHANGED <<systemFlags, mainVars, pthread, enable_batching, attempted>>

\* The clock advances while the system runs.  Only the Batcher reads it, and
\* only for the age of its open batch, so it is stepped while a batch is open.
SystemTick ==
    /\ enable_batching
    /\ has_orders_
    /\ main_pc # "done"
    /\ Tick

\* ---- telemetry_logger_thread
\* The thread's locals: its position, and within size() the head index it
\* loaded and the value returned; occ_lo and occ_hi are history, the least
\* and the greatest occupancy of the ring since the size() call began.
\* produced and consumed are the values of orders_produced and
\* orders_consumed it loaded for the statistics line.
IdleTelemetry ==
    [pc |-> "idle", head |-> 0, size |-> 0, occ_lo |-> 0, occ_hi |-> 0,
     produced |-> 0, consumed |-> 0]

\* The thread as main spawns it.
InitTelemetry == tthread = [IdleTelemetry EXCEPT !.pc = "loop"]

\* No thread calls size().
InitNoTelemetry == tthread = [IdleTelemetry EXCEPT !.pc = "none"]

\* The loop test.
TelemetryLoopTest ==
    /\ tthread.pc = "loop"
    /\ tthread' = [tthread EXCEPT !.pc = IF KeepRunning THEN "report"
                                         ELSE "exited"]

\* The loop's body: the statistics line when a second has passed, and the
\* sleep.  It reads the counters and the ring's indices and writes nothing
\* that another thread reads.
TelemetryReport ==
    /\ tthread.pc = "report"
    /\ tthread' = [tthread EXCEPT !.pc = "loop"]

\* The loop's body when a second has passed, load by load: the statistics
\* line is begun.
TelemetryStatsBegin ==
    /\ tthread.pc = "report"
    /\ tthread' = [tthread EXCEPT !.pc = "stats", !.produced = 0,
                                  !.consumed = 0]

\* Line 133: g_stats.orders_produced.load(), an operand of the line's
\* chain of <<.  The operands of the chain are evaluated in an order the
\* language standard of the build decides: either load may come first.
TelemetryLoadProduced ==
    /\ tthread.pc \in {"stats", "stats_consumed"}
    /\ tthread' = [tthread EXCEPT
                      !.pc = IF @ = "stats" THEN "stats_produced"
                             ELSE "printed",
                      !.produced = stats.orders_produced]

\* Line 134: g_stats.orders_consumed.load().
TelemetryLoadConsumed ==
    /\ tthread.pc \in {"stats", "stats_produced"}
    /\ tthread' = [tthread EXCEPT
                      !.pc = IF @ = "stats" THEN "stats_consumed"
                             ELSE "printed",
                      !.consumed = stats.orders_consumed]

\* The line is printed; the sleep, and the next turn of the loop.
TelemetrySleep ==
    /\ tthread.pc = "printed"
    /\ tthread' = [tthread EXCEPT !.pc = "loop"]

\* ---- LockFreeRingBuffer::size, as the telemetry thread calls it
\* (head - tail) & (capacity_ - 1), of the two values loaded.
SizeValue(head, tail) == BitAnd(WordSub(head, tail), WordSub(capacity_, 1))

\* The orders in the ring: pushed and not yet popped.
Occupancy == Len(pushed) - Len(popped)

\* size() is entered.
SizeCall ==
    /\ RingUsable
    /\ tthread.pc \in {"idle", "returned"}
    /\ tthread' = [IdleTelemetry EXCEPT !.pc = "size_load_head",
                                        !.occ_lo = Occupancy,
                                        !.occ_hi = Occupancy]

\* size_t head = head_.load(acquire).
SizeLoadHead ==
    /\ tthread.pc = "size_load_head"
    /\ tthread' = [tthread EXCEPT !.pc = "size_load_tail", !.head = head_]

\* size_t tail = tail_.load(acquire); return (head - tail) & (capacity_ - 1).
SizeLoadTail ==
    /\ tthread.pc = "size_load_tail"
    /\ tthread' = [tthread EXCEPT !.pc = "returned",
                                  !.size = SizeValue(tthread.head, tail_)]

\* A step of try_push or try_pop while size() runs: the history of the
\* ring's occupancy during the call takes in the new occupancy.
SizeCallObserves ==
    tthread' =
        IF tthread.pc \in {"size_load_head", "size_load_tail"}
        THEN [tthread EXCEPT
                 !.occ_lo = IF Len(pushed') - Len(popped') < @
                            THEN Len(pushed') - Len(popped') ELSE @,
                 !.occ_hi = IF Len(pushed') - Len(popped') > @
                            THEN Len(pushed') - Len(popped') ELSE @]
        ELSE tthread

\* ---- main
\* The wait loop ends (runtime elapsed, or g_shutdown_requested seen):
\* g_running = false.
MainStop ==
    /\ main_pc = "wait"
    /\ g_running' = FALSE
    /\ main_pc' = "join"
    /\ UNCHANGED <<g_shutdown_requested, join_index, shutdown_batch, reported,
                   pthread, cthread, enable_batching, stats, attempted, send_results>>

\* thread.join() on the next thread of the vector.
MainJoin ==
    /\ main_pc = "join"
    /\ join_index < NumThreads
    /\ ThreadExited(join_index)
    /\ join_index' = join_index + 1
    /\ UNCHANGED <<systemFlags, main_pc, shutdown_batch, reported,
                   pthread, cthread, enable_batching, stats, attempted, send_results>>

\* shutdown_system is entered: g_running = false.
MainShutdownSystem ==
    /\ main_pc = "join"
    /\ join_index = NumThreads
    /\ g_running' = FALSE
    /\ main_pc' = "force_flush"
    /\ UNCHANGED <<g_shutdown_requested, join_index, shutdown_batch, reported,
                   pthread, cthread, enable_batching, stats, attempted, send_results>>

\* if (g_batcher) g_batcher->force_flush().
MainForceFlush ==
    /\ main_pc = "force_flush"
    /\ IF enable_batching
       THEN /\ SystemBatcherBecomes(ForceFlushOn(BatcherState, now))
            /\ last_op' = "force_flush"
            /\ UNCHANGED <<batcherConfig, now, added, last_ret, run, bcall>>
       ELSE UNCHANGED <<batcherVars, stats, send_results>>
    /\ shutdown_batch' = batch_buffer_
    /\ main_pc' = "report"
    /\ UNCHANGED <<systemFlags, join_index, reported, pthread, cthread,
                   enable_batching, attempted>>

\* The final statistics are printed.
MainReport ==
    /\ main_pc = "report"
    /\ reported' = <<stats>>
    /\ main_pc' = "done"
    /\ UNCHANGED <<systemFlags, join_index, shutdown_batch, pthread, cthread,
                   enable_batching, stats, attempted, send_results>>

\* No ring is constructed.
InitNoRing ==
    /\ capacity_ = 0
    /\ ring_state = "aborted"
    /\ head_ = 0
    /\ tail_ = 0
    /\ buffer_ = <<>>
    /\ num_producers = 0
    /\ num_consumers = 0
    /\ prod = <<>>
    /\ cons = <<>>
    /\ pushed = <<>>
    /\ popped = <<>>
    /\ streak = 0
    /\ streak_valid = TRUE
    /\ streak_failed = FALSE

\* ------------------------------------------------- specification: SPSC ring
\* One thread calling try_push and one calling try_pop on one ring; the
\* Batcher is not used.
Init ==
    /\ InitRing(1, 1)
    /\ InitBatcher({0}, {0})
    /\ InitNoTransport
    /\ InitNoSystem
    /\ InitNoTelemetry
    /\ InitNoTimed

Next ==
    \/ \E p \in Producers : TryPushLoadHead(p) /\ UNCHANGED <<batcherVars, transportVars, systemVars, telemetryVars, timedVars>>
    \/ \E p \in Producers : TryPushLoadTail(p) /\ UNCHANGED <<batcherVars, transportVars, systemVars, telemetryVars, timedVars>>
    \/ \E p \in Producers : TryPushWrite(p) /\ UNCHANGED <<batcherVars, transportVars, systemVars, telemetryVars, timedVars>>
    \/ \E p \in Producers : TryPushStoreHead(p) /\ UNCHANGED <<batcherVars, transportVars, systemVars, telemetryVars, timedVars>>
    \/ \E c \in Consumers : TryPopLoadTail(c) /\ UNCHANGED <<batcherVars, transportVars, systemVars, telemetryVars, timedVars>>
    \/ \E c \in Consumers : TryPopLoadHead(c) /\ UNCHANGED <<batcherVars, transportVars, systemVars, telemetryVars, timedVars>>
    \/ \E c \in Consumers : TryPopRead(c) /\ UNCHANGED <<batcherVars, transportVars, systemVars, telemetryVars, timedVars>>
    \/ \E c \in Consumers : TryPopStoreTail(c) /\ UNCHANGED <<batcherVars, transportVars, systemVars, telemetryVars, timedVars>>

Spec == Init /\ [][Next]_vars

\* --------------------------------------- specification: one-thread Batcher
\* One thread calling add_order, check_timeout and force_flush in any order
\* while the clock advances.
InitBatcherAlone ==
    /\ InitNoRing
    /\ InitBatcher(0..MaxBatchSize, 0..MaxTimeout)
    /\ InitNoTransport
    /\ InitNoSystem
    /\ InitNoTelemetry
    /\ InitNoTimed

NextBatcherAlone ==
    \/ Tick /\ UNCHANGED <<ringVars, transportVars, systemVars, telemetryVars, timedVars>>
    \/ AddOrder /\ UNCHANGED <<ringVars, transportVars, systemVars, telemetryVars, timedVars>>
    \/ CheckTimeout /\ UNCHANGED <<ringVars, transportVars, systemVars, telemetryVars, timedVars>>
    \/ ForceFlush /\ UNCHANGED <<ringVars, transportVars, systemVars, telemetryVars, timedVars>>

SpecBatcher == InitBatcherAlone /\ [][NextBatcherAlone]_vars

\* ------------------------------- specifications: more than two ring threads
\* Three threads on one ring of capacity 2 or 4, each producer synthesizing
\* a few orders.
NextRacing ==
    \/ \E p \in Producers :
          /\ prod[p].order_count < MaxRacingOrders
          /\ TryPushLoadHead(p)
          /\ UNCHANGED <<batcherVars, transportVars, systemVars, telemetryVars, timedVars>>
    \/ \E p \in Producers : TryPushLoadTail(p) /\ UNCHANGED <<batcherVars, transportVars, systemVars, telemetryVars, timedVars>>
    \/ \E p \in Producers : TryPushWrite(p) /\ UNCHANGED <<batcherVars, transportVars, systemVars, telemetryVars, timedVars>>
    \/ \E p \in Producers : TryPushStoreHead(p) /\ UNCHANGED <<batcherVars, transportVars, systemVars, telemetryVars, timedVars>>
    \/ \E c \in Consumers : TryPopLoadTail(c) /\ UNCHANGED <<batcherVars, transportVars, systemVars, telemetryVars, timedVars>>
    \/ \E c \in Consumers : TryPopLoadHead(c) /\ UNCHANGED <<batcherVars, transportVars, systemVars, telemetryVars, timedVars>>
    \/ \E c \in Consumers : TryPopRead(c) /\ UNCHANGED <<batcherVars, transportVars, systemVars, telemetryVars, timedVars>>
    \/ \E c \in Consumers : TryPopStoreTail(c) /\ UNCHANGED <<batcherVars, transportVars, systemVars, telemetryVars, timedVars>>

\* Two threads calling try_push and one calling try_pop, as main's default
\* configuration attaches producers (num_producers = 2).
InitTwoProducers ==
    /\ InitRing(2, 1)
    /\ capacity_ \in {2, 4}
    /\ InitBatcher({0}, {0})
    /\ InitNoTransport
    /\ InitNoSystem
    /\ InitNoTelemetry
    /\ InitNoTimed

SpecTwoProducers == InitTwoProducers /\ [][NextRacing]_vars

\* One thread calling try_push and two calling try_pop.
InitTwoConsumers ==
    /\ InitRing(1, 2)
    /\ capacity_ \in {2, 4}
    /\ InitBatcher({0}, {0})
    /\ InitNoTransport
    /\ InitNoSystem
    /\ InitNoTelemetry
    /\ InitNoTimed

SpecTwoConsumers == InitTwoConsumers /\ [][NextRacing]_vars

\* ------------------------------------------ specification: the transports
\* One or two threads calling the send function of the configured transport,
\* before and after the simulator is created; reset_stats is never called.
InitTransportAlone ==
    /\ InitNoRing
    /\ InitBatcher({0}, {0})
    /\ InitTransport({"TCP", "UDP", "SHM"}, {1, 2})
    /\ InitNoSystem
    /\ InitNoTelemetry
    /\ InitNoTimed

NextTransport ==
    \/ InitSimulator /\ UNCHANGED <<ringVars, batcherVars, systemVars, telemetryVars, timedVars>>
    \/ \E s \in Senders : SendUninitialized(s) /\ UNCHANGED <<ringVars, batcherVars, systemVars, telemetryVars, timedVars>>
    \/ \E s \in Senders : TcpSendOrders(s) /\ UNCHANGED <<ringVars, batcherVars, systemVars, telemetryVars, timedVars>>
    \/ \E s \in Senders : TcpAttempt(s) /\ UNCHANGED <<ringVars, batcherVars, systemVars, telemetryVars, timedVars>>
    \/ \E s \in Senders : TcpAfterDrop(s) /\ UNCHANGED <<ringVars, batcherVars, systemVars, telemetryVars, timedVars>>
    \/ \E s \in Senders : UdpSendOrders(s) /\ UNCHANGED <<ringVars, batcherVars, systemVars, telemetryVars, timedVars>>
    \/ \E s \in Senders : UdpDraw(s) /\ UNCHANGED <<ringVars, batcherVars, systemVars, telemetryVars, timedVars>>
    \/ \E s \in Senders : UdpAddDelay(s) /\ UNCHANGED <<ringVars, batcherVars, systemVars, telemetryVars, timedVars>>
    \/ \E s \in Senders : ShmSendOrders(s) /\ UNCHANGED <<ringVars, batcherVars, systemVars, telemetryVars, timedVars>>
    \/ \E s \in Senders : ShmNoise(s) /\ UNCHANGED <<ringVars, batcherVars, systemVars, telemetryVars, timedVars>>
    \/ \E s \in Senders : ShmAddTotal(s) /\ UNCHANGED <<ringVars, batcherVars, systemVars, telemetryVars, timedVars>>
    \/ \E s \in Senders : ShmLoadMin(s) /\ UNCHANGED <<ringVars, batcherVars, systemVars, telemetryVars, timedVars>>
    \/ \E s \in Senders : ShmCasMin(s) /\ UNCHANGED <<ringVars, batcherVars, systemVars, telemetryVars, timedVars>>
    \/ \E s \in Senders : ShmLoadMax(s) /\ UNCHANGED <<ringVars, batcherVars, systemVars, telemetryVars, timedVars>>
    \/ \E s \in Senders : ShmCasMax(s) /\ UNCHANGED <<ringVars, batcherVars, systemVars, telemetryVars, timedVars>>

SpecTransport == InitTransportAlone /\ [][NextTransport]_vars

\* ------------------------------------------- specification: orchestrator
\* main with one producer and one consumer worker on a ring of capacity 2,
\* batching (batch size 2, timeout of one tick) enabled or not, from the
\* spawning of the workers to the final statistics.  A send is taken by its
\* return value, so the simulator's drop rate and retry limit are fixed.
InitOrchestrator ==
    /\ InitRing(1, 1)
    /\ capacity_ = 2
    /\ InitBatcher({2}, {1})
    /\ InitTransport({"TCP"}, {0})
    /\ drop_rate_ = "sometimes"
    /\ max_retries_ = 0
    /\ InitSystem(1, 1)
    /\ InitTelemetry
    /\ InitNoTimed

NextOrchestrator ==
    \/ SystemTick /\ UNCHANGED <<ringVars, transportVars, systemVars, telemetryVars, timedVars>>
    \/ SignalHandler /\ UNCHANGED <<ringVars, batcherVars, transportVars, telemetryVars, timedVars>>
    \/ \E p \in Producers : ProducerLoopTest(p) /\ UNCHANGED <<ringVars, batcherVars, transportVars, telemetryVars, timedVars>>
    \/ \E p \in Producers : ProducerTryPushLoadHead(p) /\ UNCHANGED <<batcherVars, transportVars, telemetryVars, timedVars>>
    \/ \E p \in Producers : ProducerTryPushLoadTail(p) /\ UNCHANGED <<batcherVars, transportVars, telemetryVars, timedVars>>
    \/ \E p \in Producers : ProducerTryPushWrite(p) /\ UNCHANGED <<batcherVars, transportVars, telemetryVars, timedVars>>
    \/ \E p \in Producers : ProducerTryPushStoreHead(p) /\ UNCHANGED <<batcherVars, transportVars, telemetryVars, timedVars>>
    \/ \E p \in Producers : ProducerCount(p) /\ UNCHANGED <<ringVars, batcherVars, transportVars, telemetryVars, timedVars>>
    \/ \E c \in Consumers : ConsumerLoopTest(c) /\ UNCHANGED <<ringVars, batcherVars, transportVars, telemetryVars, timedVars>>
    \/ \E c \in Consumers : ConsumerTryPopLoadTail(c) /\ UNCHANGED <<batcherVars, transportVars, telemetryVars, timedVars>>
    \/ \E c \in Consumers : ConsumerTryPopLoadHead(c) /\ UNCHANGED <<batcherVars, transportVars, telemetryVars, timedVars>>
    \/ \E c \in Consumers : ConsumerTryPopRead(c) /\ UNCHANGED <<batcherVars, transportVars, telemetryVars, timedVars>>
    \/ \E c \in Consumers : ConsumerTryPopStoreTail(c) /\ UNCHANGED <<batcherVars, transportVars, telemetryVars, timedVars>>
    \/ \E c \in Consumers : ConsumerNothingPopped(c) /\ UNCHANGED <<ringVars, batcherVars, transportVars, telemetryVars, timedVars>>
    \/ \E c \in Consumers : ConsumerAddOrder(c) /\ UNCHANGED <<ringVars, transportVars, telemetryVars, timedVars>>
    \/ \E c \in Consumers : ConsumerCheckTimeout(c) /\ UNCHANGED <<ringVars, transportVars, telemetryVars, timedVars>>
    \/ \E c \in Consumers : ConsumerSendDirect(c) /\ UNCHANGED <<ringVars, transportVars, telemetryVars, timedVars>>
    \/ TelemetryLoopTest /\ UNCHANGED <<ringVars, batcherVars, transportVars, systemVars, timedVars>>
    \/ TelemetryReport /\ UNCHANGED <<ringVars, batcherVars, transportVars, systemVars, timedVars>>
    \/ MainStop /\ UNCHANGED <<ringVars, batcherVars, transportVars, telemetryVars, timedVars>>
    \/ MainJoin /\ UNCHANGED <<ringVars, batcherVars, transportVars, telemetryVars, timedVars>>
    \/ MainShutdownSystem /\ UNCHANGED <<ringVars, batcherVars, transportVars, telemetryVars, timedVars>>
    \/ MainForceFlush /\ UNCHANGED <<ringVars, transportVars, telemetryVars, timedVars>>
    \/ MainReport /\ UNCHANGED <<ringVars, batcherVars, transportVars, telemetryVars, timedVars>>

SpecOrchestrator == InitOrchestrator /\ [][NextOrchestrator]_vars

\* ------------------------------ specification: orchestrator, fair scheduling
\* The same system with every thread that can take a step eventually taking
\* one: the operating system schedules each runnable thread, each sleep_for
\* returns, and the runtime deadline of main's wait loop is finite.  Nothing
\* obliges a signal to arrive or the clock to be read at a later tick.
\* The producer's loop test, the producer synthesizing fewer orders.
FairProducerLoopTest(p) ==
    /\ KeepRunning => prod[p].order_count < MaxFairProduced
    /\ ProducerLoopTest(p)

NextOrchestratorFair ==
    \/ SystemTick /\ UNCHANGED <<ringVars, transportVars, systemVars, telemetryVars, timedVars>>
    \/ SignalHandler /\ UNCHANGED <<ringVars, batcherVars, transportVars, telemetryVars, timedVars>>
    \/ \E p \in Producers : FairProducerLoopTest(p) /\ UNCHANGED <<ringVars, batcherVars, transportVars, telemetryVars, timedVars>>
    \/ \E p \in Producers : ProducerTryPushLoadHead(p) /\ UNCHANGED <<batcherVars, transportVars, telemetryVars, timedVars>>
    \/ \E p \in Producers : ProducerTryPushLoadTail(p) /\ UNCHANGED <<batcherVars, transportVars, telemetryVars, timedVars>>
    \/ \E p \in Producers : ProducerTryPushWrite(p) /\ UNCHANGED <<batcherVars, transportVars, telemetryVars, timedVars>>
    \/ \E p \in Producers : ProducerTryPushStoreHead(p) /\ UNCHANGED <<batcherVars, transportVars, telemetryVars, timedVars>>
    \/ \E p \in Producers : ProducerCount(p) /\ UNCHANGED <<ringVars, batcherVars, transportVars, telemetryVars, timedVars>>
    \/ \E c \in Consumers : ConsumerLoopTest(c) /\ UNCHANGED <<ringVars, batcherVars, transportVars, telemetryVars, timedVars>>
    \/ \E c \in Consumers : ConsumerTryPopLoadTail(c) /\ UNCHANGED <<batcherVars, transportVars, telemetryVars, timedVars>>
    \/ \E c \in Consumers : ConsumerTryPopLoadHead(c) /\ UNCHANGED <<batcherVars, transportVars, telemetryVars, timedVars>>
    \/ \E c \in Consumers : ConsumerTryPopRead(c) /\ UNCHANGED <<batcherVars, transportVars, telemetryVars, timedVars>>
    \/ \E c \in Consumers : ConsumerTryPopStoreTail(c) /\ UNCHANGED <<batcherVars, transportVars, telemetryVars, timedVars>>
    \/ \E c \in Consumers : ConsumerNothingPopped(c) /\ UNCHANGED <<ringVars, batcherVars, transportVars, telemetryVars, timedVars>>
    \/ \E c \in Consumers : ConsumerAddOrder(c) /\ UNCHANGED <<ringVars, transportVars, telemetryVars, timedVars>>
    \/ \E c \in Consumers : ConsumerCheckTimeout(c) /\ UNCHANGED <<ringVars, transportVars, telemetryVars, timedVars>>
    \/ \E c \in Consumers : ConsumerSendDirect(c) /\ UNCHANGED <<ringVars, transportVars, telemetryVars, timedVars>>
    \/ TelemetryLoopTest /\ UNCHANGED <<ringVars, batcherVars, transportVars, systemVars, timedVars>>
    \/ TelemetryReport /\ UNCHANGED <<ringVars, batcherVars, transportVars, systemVars, timedVars>>
    \/ MainStop /\ UNCHANGED <<ringVars, batcherVars, transportVars, telemetryVars, timedVars>>
    \/ MainJoin /\ UNCHANGED <<ringVars, batcherVars, transportVars, telemetryVars, timedVars>>
    \/ MainShutdownSystem /\ UNCHANGED <<ringVars, batcherVars, transportVars, telemetryVars, timedVars>>
    \/ MainForceFlush /\ UNCHANGED <<ringVars, transportVars, telemetryVars, timedVars>>
    \/ MainReport /\ UNCHANGED <<ringVars, batcherVars, transportVars, telemetryVars, timedVars>>

\* The workers on a Batcher of batch size 1 or 2.
InitOrchestratorFair ==
    /\ InitRing(1, 1)
    /\ capacity_ = 2
    /\ InitBatcher({1, 2}, {1})
    /\ InitTransport({"TCP"}, {0})
    /\ drop_rate_ = "sometimes"
    /\ max_retries_ = 0
    /\ InitSystem(1, 1)
    /\ InitTelemetry
    /\ InitNoTimed

\* The steps of NextOrchestratorFair that producer p takes.
ProducerMoves(p) ==
    \/ FairProducerLoopTest(p) /\ UNCHANGED <<ringVars, batcherVars, transportVars, telemetryVars, timedVars>>
    \/ ProducerTryPushLoadHead(p) /\ UNCHANGED <<batcherVars, transportVars, telemetryVars, timedVars>>
    \/ ProducerTryPushLoadTail(p) /\ UNCHANGED <<batcherVars, transportVars, telemetryVars, timedVars>>
    \/ ProducerTryPushWrite(p) /\ UNCHANGED <<batcherVars, transportVars, telemetryVars, timedVars>>
    \/ ProducerTryPushStoreHead(p) /\ UNCHANGED <<batcherVars, transportVars, telemetryVars, timedVars>>
    \/ ProducerCount(p) /\ UNCHANGED <<ringVars, batcherVars, transportVars, telemetryVars, timedVars>>

\* The steps of NextOrchestratorFair that consumer c takes.
ConsumerMoves(c) ==
    \/ ConsumerLoopTest(c) /\ UNCHANGED <<ringVars, batcherVars, transportVars, telemetryVars, timedVars>>
    \/ ConsumerTryPopLoadTail(c) /\ UNCHANGED <<batcherVars, transportVars, telemetryVars, timedVars>>
    \/ ConsumerTryPopLoadHead(c) /\ UNCHANGED <<batcherVars, transportVars, telemetryVars, timedVars>>
    \/ ConsumerTryPopRead(c) /\ UNCHANGED <<batcherVars, transportVars, telemetryVars, timedVars>>
    \/ ConsumerTryPopStoreTail(c) /\ UNCHANGED <<batcherVars, transportVars, telemetryVars, timedVars>>
    \/ ConsumerNothingPopped(c) /\ UNCHANGED <<ringVars, batcherVars, transportVars, telemetryVars, timedVars>>
    \/ ConsumerAddOrder(c) /\ UNCHANGED <<ringVars, transportVars, telemetryVars, timedVars>>
    \/ ConsumerCheckTimeout(c) /\ UNCHANGED <<ringVars, transportVars, telemetryVars, timedVars>>
    \/ ConsumerSendDirect(c) /\ UNCHANGED <<ringVars, transportVars, telemetryVars, timedVars>>

\* The steps of NextOrchestratorFair that the telemetry thread takes.
TelemetryMoves ==
    \/ TelemetryLoopTest /\ UNCHANGED <<ringVars, batcherVars, transportVars, systemVars, timedVars>>
    \/ TelemetryReport /\ UNCHANGED <<ringVars, batcherVars, transportVars, systemVars, timedVars>>

\* The steps of NextOrchestratorFair that main takes.
MainMoves ==
    \/ MainStop /\ UNCHANGED <<ringVars, batcherVars, transportVars, telemetryVars, timedVars>>
    \/ MainJoin /\ UNCHANGED <<ringVars, batcherVars, transportVars, telemetryVars, timedVars>>
    \/ MainShutdownSystem /\ UNCHANGED <<ringVars, batcherVars, transportVars, telemetryVars, timedVars>>
    \/ MainForceFlush /\ UNCHANGED <<ringVars, transportVars, telemetryVars, timedVars>>
    \/ MainReport /\ UNCHANGED <<ringVars, batcherVars, transportVars, telemetryVars, timedVars>>

FairScheduling ==
    /\ WF_vars(ProducerMoves(0))
    /\ WF_vars(ConsumerMoves(0))
    /\ WF_vars(TelemetryMoves)
    /\ WF_vars(MainMoves)

SpecOrchestratorFair ==
    InitOrchestratorFair /\ [][NextOrchestratorFair]_vars /\ FairScheduling

\* ------------------------------------ specification: size() beside SPSC
\* One thread calling try_push, one calling try_pop and a third calling
\* size() on one ring, as producer, consumer and telemetry thread do.
InitSizeReader ==
    /\ InitRing(1, 1)
    /\ InitBatcher({0}, {0})
    /\ InitNoTransport
    /\ InitNoSystem
    /\ tthread = IdleTelemetry
    /\ InitNoTimed

NextSizeReader ==
    \/ \E p \in Producers : TryPushLoadHead(p) /\ SizeCallObserves /\ UNCHANGED <<batcherVars, transportVars, systemVars, timedVars>>
    \/ \E p \in Producers : TryPushLoadTail(p) /\ SizeCallObserves /\ UNCHANGED <<batcherVars, transportVars, systemVars, timedVars>>
    \/ \E p \in Producers : TryPushWrite(p) /\ SizeCallObserves /\ UNCHANGED <<batcherVars, transportVars, systemVars, timedVars>>
    \/ \E p \in Producers : TryPushStoreHead(p) /\ SizeCallObserves /\ UNCHANGED <<batcherVars, transportVars, systemVars, timedVars>>
    \/ \E c \in Consumers : TryPopLoadTail(c) /\ SizeCallObserves /\ UNCHANGED <<batcherVars, transportVars, systemVars, timedVars>>
    \/ \E c \in Consumers : TryPopLoadHead(c) /\ SizeCallObserves /\ UNCHANGED <<batcherVars, transportVars, systemVars, timedVars>>
    \/ \E c \in Consumers : TryPopRead(c) /\ SizeCallObserves /\ UNCHANGED <<batcherVars, transportVars, systemVars, timedVars>>
    \/ \E c \in Consumers : TryPopStoreTail(c) /\ SizeCallObserves /\ UNCHANGED <<batcherVars, transportVars, systemVars, timedVars>>
    \/ SizeCall /\ UNCHANGED <<ringVars, batcherVars, transportVars, systemVars, timedVars>>
    \/ SizeLoadHead /\ UNCHANGED <<ringVars, batcherVars, transportVars, systemVars, timedVars>>
    \/ SizeLoadTail /\ UNCHANGED <<ringVars, batcherVars, transportVars, systemVars, timedVars>>

SpecSizeReader == InitSizeReader /\ [][NextSizeReader]_vars

\* ------------------------------------- specification: timed ring helpers
\* One thread calling push_with_timeout and one calling pop_with_timeout on
\* a ring of capacity 2, with timeouts of 0..MaxTimeout units.  A
\* thread inside a call is scheduled again and again; nothing obliges a
\* thread to make a call.
InitTimedRing ==
    /\ InitRing(1, 1)
    /\ capacity_ = 2
    /\ InitBatcher({0}, {0})
    /\ InitNoTransport
    /\ InitNoSystem
    /\ InitNoTelemetry
    /\ InitTimed

NextTimedRing ==
    \/ TimedPushCall /\ UNCHANGED <<ringVars, batcherVars, transportVars, systemVars, telemetryVars>>
    \/ TimedPushTest /\ UNCHANGED <<ringVars, batcherVars, transportVars, systemVars, telemetryVars>>
    \/ TimedPushTry /\ UNCHANGED <<batcherVars, transportVars, systemVars, telemetryVars>>
    \/ TimedPushLoadTail /\ UNCHANGED <<batcherVars, transportVars, systemVars, telemetryVars>>
    \/ TimedPushWrite /\ UNCHANGED <<batcherVars, transportVars, systemVars, telemetryVars>>
    \/ TimedPushStoreHead /\ UNCHANGED <<batcherVars, transportVars, systemVars, telemetryVars>>
    \/ TimedPushSleep /\ UNCHANGED <<ringVars, batcherVars, transportVars, systemVars, telemetryVars>>
    \/ TimedPopCall /\ UNCHANGED <<ringVars, batcherVars, transportVars, systemVars, telemetryVars>>
    \/ TimedPopTest /\ UNCHANGED <<ringVars, batcherVars, transportVars, systemVars, telemetryVars>>
    \/ TimedPopTry /\ UNCHANGED <<batcherVars, transportVars, systemVars, telemetryVars>>
    \/ TimedPopLoadHead /\ UNCHANGED <<batcherVars, transportVars, systemVars, telemetryVars>>
    \/ TimedPopRead /\ UNCHANGED <<batcherVars, transportVars, systemVars, telemetryVars>>
    \/ TimedPopStoreTail /\ UNCHANGED <<batcherVars, transportVars, systemVars, telemetryVars>>
    \/ TimedPopSleep /\ UNCHANGED <<ringVars, batcherVars, transportVars, systemVars, telemetryVars>>

\* The steps of NextTimedRing inside a push_with_timeout call.
TimedPushMoves ==
    \/ TimedPushTest /\ UNCHANGED <<ringVars, batcherVars, transportVars, systemVars, telemetryVars>>
    \/ TimedPushTry /\ UNCHANGED <<batcherVars, transportVars, systemVars, telemetryVars>>
    \/ TimedPushLoadTail /\ UNCHANGED <<batcherVars, transportVars, systemVars, telemetryVars>>
    \/ TimedPushWrite /\ UNCHANGED <<batcherVars, transportVars, systemVars, telemetryVars>>
    \/ TimedPushStoreHead /\ UNCHANGED <<batcherVars, transportVars, systemVars, telemetryVars>>
    \/ TimedPushSleep /\ UNCHANGED <<ringVars, batcherVars, transportVars, systemVars, telemetryVars>>

\* The steps of NextTimedRing inside a pop_with_timeout call.
TimedPopMoves ==
    \/ TimedPopTest /\ UNCHANGED <<ringVars, batcherVars, transportVars, systemVars, telemetryVars>>
    \/ TimedPopTry /\ UNCHANGED <<batcherVars, transportVars, systemVars, telemetryVars>>
    \/ TimedPopLoadHead /\ UNCHANGED <<batcherVars, transportVars, systemVars, telemetryVars>>
    \/ TimedPopRead /\ UNCHANGED <<batcherVars, transportVars, systemVars, telemetryVars>>
    \/ TimedPopStoreTail /\ UNCHANGED <<batcherVars, transportVars, systemVars, telemetryVars>>
    \/ TimedPopSleep /\ UNCHANGED <<ringVars, batcherVars, transportVars, systemVars, telemetryVars>>

SpecTimedRing ==
    /\ InitTimedRing
    /\ [][NextTimedRing]_vars
    /\ WF_vars(TimedPushMoves)
    /\ WF_vars(TimedPopMoves)

\* ------------------------------------------- the Batcher called by two threads
\* consumer_thread's two calls, add_order and then check_timeout, made by
\* more than one consumer on the one g_batcher, stepped at each access to a
\* member.  The accesses are taken one at a time, in some order: the runs
\* here are among those the data race allows.
SharedCallers == DOMAIN bcall

\* Where flush_batch returns to: add_order is followed by check_timeout,
\* check_timeout by the next turn of the consumer's loop.
AfterFlush(l) ==
    [l EXCEPT !.pc = IF l.op = "add_order" THEN "check_test" ELSE "idle"]

\* add_order(order), line 27: if (!has_orders_).
SharedAddOrder(t) ==
    /\ bcall[t].pc = "idle"
    /\ bcall[t].count < MaxSharedAdds
    /\ bcall' = [bcall EXCEPT ![t] =
                   [@ EXCEPT !.pc = IF ~has_orders_ THEN "add_stamp"
                                    ELSE "add_push",
                             !.op = "add_order",
                             !.order = MakeOrder(t * IdBase + bcall[t].count),
                             !.count = @ + 1]]
    /\ UNCHANGED <<batch_buffer_, batcherConfig, first_order_time_,
                   has_orders_, now, flushes, batcherHistory>>

\* Lines 28-29: first_order_time_ = now(); has_orders_ = true.
SharedAddStamp(t) ==
    /\ bcall[t].pc = "add_stamp"
    /\ first_order_time_' = now
    /\ has_orders_' = TRUE
    /\ bcall' = [bcall EXCEPT ![t].pc = "add_push"]
    /\ UNCHANGED <<batch_buffer_, batcherConfig, now, flushes, batcherHistory>>

\* Line 32: batch_buffer_.push_back(order).
SharedAddPush(t) ==
    /\ bcall[t].pc = "add_push"
    /\ batch_buffer_' = Append(batch_buffer_, bcall[t].order)
    /\ added' = added + 1
    /\ bcall' = [bcall EXCEPT ![t] = [@ EXCEPT !.pc = "add_size",
                                              !.done = @ + 1]]
    /\ UNCHANGED <<batcherConfig, first_order_time_, has_orders_, now,
                   flushes, last_op, last_ret, last_sends, run>>

\* Lines 35-37: if (batch_buffer_.size() >= batch_size_threshold_)
\* flush_batch(); then add_order returns and check_timeout is called.
SharedAddSize(t) ==
    /\ bcall[t].pc = "add_size"
    /\ bcall' = [bcall EXCEPT ![t].pc =
                   IF SizeThresholdReached(Len(batch_buffer_),
                                           batch_size_threshold_)
                   THEN "flush_empty" ELSE "check_test"]
    /\ UNCHANGED <<batch_buffer_, batcherConfig, first_order_time_,
                   has_orders_, now, flushes, batcherHistory>>

\* check_timeout, lines 42-44: if (!has_orders_ || batch_buffer_.empty()).
SharedCheckTest(t) ==
    /\ bcall[t].pc = "check_test"
    /\ bcall' = [bcall EXCEPT ![t] =
                   [@ EXCEPT !.pc = IF ~has_orders_ \/ batch_buffer_ = <<>>
                                    THEN "idle" ELSE "check_elapsed",
                             !.op = "check_timeout"]]
    /\ UNCHANGED <<batch_buffer_, batcherConfig, first_order_time_,
                   has_orders_, now, flushes, batcherHistory>>

\* Lines 46-54: the clock is read; if (elapsed >= timeout_) flush_batch().
SharedCheckElapsed(t) ==
    /\ bcall[t].pc = "check_elapsed"
    /\ bcall' = [bcall EXCEPT ![t].pc =
                   IF TimeoutElapsed(now - first_order_time_, timeout_)
                   THEN "flush_empty" ELSE "idle"]
    /\ UNCHANGED <<batch_buffer_, batcherConfig, first_order_time_,
                   has_orders_, now, flushes, batcherHistory>>

\* flush_batch, lines 76-78: if (batch_buffer_.empty()) return.
SharedFlushEmpty(t) ==
    /\ bcall[t].pc = "flush_empty"
    /\ bcall' = [bcall EXCEPT ![t] =
                   IF batch_buffer_ = <<>> THEN AfterFlush(@)
                   ELSE [@ EXCEPT !.pc = "flush_callback"]]
    /\ UNCHANGED <<batch_buffer_, batcherConfig, first_order_time_,
                   has_orders_, now, flushes, batcherHistory>>

\* Lines 81-87: the latency, and send_callback_(batch_buffer_, latency),
\* from its invocation to its return.
SharedFlushCallback(t) ==
    /\ bcall[t].pc = "flush_callback"
    /\ flushes' = Append(flushes, [orders |-> batch_buffer_,
                                   latency_us |-> now - first_order_time_])
    /\ bcall' = [bcall EXCEPT ![t].pc = "flush_clear"]
    /\ UNCHANGED <<batch_buffer_, batcherConfig, first_order_time_,
                   has_orders_, now, batcherHistory>>

\* Line 90: batch_buffer_.clear().
SharedFlushClear(t) ==
    /\ bcall[t].pc = "flush_clear"
    /\ batch_buffer_' = BufferCleared(batch_buffer_)
    /\ bcall' = [bcall EXCEPT ![t].pc = "flush_reset"]
    /\ UNCHANGED <<batcherConfig, first_order_time_, has_orders_, now,
                   flushes, batcherHistory>>

\* Line 91: has_orders_ = false, and flush_batch returns.
SharedFlushReset(t) ==
    /\ bcall[t].pc = "flush_reset"
    /\ has_orders_' = FALSE
    /\ bcall' = [bcall EXCEPT ![t] = AfterFlush(@)]
    /\ UNCHANGED <<batch_buffer_, batcherConfig, first_order_time_, now,
                   flushes, batcherHistory>>

\* The clock advances while a batch is open, up to the instant the batch
\* times out: check_timeout's comparison sees no difference after it.
SharedTick ==
    /\ has_orders_
    /\ ~TimeoutElapsed(now - first_order_time_, timeout_)
    /\ Tick

\* --------------------------------- specification: Batcher and two consumers
\* Two threads each calling add_order and then check_timeout on one Batcher
\* of batch size 2 and a timeout of one tick, each with its own orders.
InitSharedBatcher ==
    /\ InitNoRing
    /\ InitBatcherShared({2}, {1}, 2)
    /\ InitNoTransport
    /\ InitNoSystem
    /\ InitNoTelemetry
    /\ InitNoTimed

NextSharedBatcher ==
    \/ SharedTick /\ UNCHANGED <<ringVars, transportVars, systemVars, telemetryVars, timedVars>>
    \/ \E t \in SharedCallers : SharedAddOrder(t) /\ UNCHANGED <<ringVars, transportVars, systemVars, telemetryVars, timedVars>>
    \/ \E t \in SharedCallers : SharedAddStamp(t) /\ UNCHANGED <<ringVars, transportVars, systemVars, telemetryVars, timedVars>>
    \/ \E t \in SharedCallers : SharedAddPush(t) /\ UNCHANGED <<ringVars, transportVars, systemVars, telemetryVars, timedVars>>
    \/ \E t \in SharedCallers : SharedAddSize(t) /\ UNCHANGED <<ringVars, transportVars, systemVars, telemetryVars, timedVars>>
    \/ \E t \in SharedCallers : SharedCheckTest(t) /\ UNCHANGED <<ringVars, transportVars, systemVars, telemetryVars, timedVars>>
    \/ \E t \in SharedCallers : SharedCheckElapsed(t) /\ UNCHANGED <<ringVars, transportVars, systemVars, telemetryVars, timedVars>>
    \/ \E t \in SharedCallers : SharedFlushEmpty(t) /\ UNCHANGED <<ringVars, transportVars, systemVars, telemetryVars, timedVars>>
    \/ \E t \in SharedCallers : SharedFlushCallback(t) /\ UNCHANGED <<ringVars, transportVars, systemVars, telemetryVars, timedVars>>
    \/ \E t \in SharedCallers : SharedFlushClear(t) /\ UNCHANGED <<ringVars, transportVars, systemVars, telemetryVars, timedVars>>
    \/ \E t \in SharedCallers : SharedFlushReset(t) /\ UNCHANGED <<ringVars, transportVars, systemVars, telemetryVars, timedVars>>

SpecSharedBatcher == InitSharedBatcher /\ [][NextSharedBatcher]_vars

\* ----------------------- specification: orchestrator, telemetry line stepped
\* The system of one producer and one consumer with the telemetry thread's
\* statistics line taken load by load.
InitTelemetryLine == InitOrchestrator

NextTelemetry ==
    \/ SystemTick /\ UNCHANGED <<ringVars, transportVars, systemVars, telemetryVars, timedVars>>
    \/ SignalHandler /\ UNCHANGED <<ringVars, batcherVars, transportVars, telemetryVars, timedVars>>
    \/ \E p \in Producers : ProducerLoopTest(p) /\ UNCHANGED <<ringVars, batcherVars, transportVars, telemetryVars, timedVars>>
    \/ \E p \in Producers : ProducerTryPushLoadHead(p) /\ UNCHANGED <<batcherVars, transportVars, telemetryVars, timedVars>>
    \/ \E p \in Producers : ProducerTryPushLoadTail(p) /\ UNCHANGED <<batcherVars, transportVars, telemetryVars, timedVars>>
    \/ \E p \in Producers : ProducerTryPushWrite(p) /\ UNCHANGED <<batcherVars, transportVars, telemetryVars, timedVars>>
    \/ \E p \in Producers : ProducerTryPushStoreHead(p) /\ UNCHANGED <<batcherVars, transportVars, telemetryVars, timedVars>>
    \/ \E p \in Producers : ProducerCount(p) /\ UNCHANGED <<ringVars, batcherVars, transportVars, telemetryVars, timedVars>>
    \/ \E c \in Consumers : ConsumerLoopTest(c) /\ UNCHANGED <<ringVars, batcherVars, transportVars, telemetryVars, timedVars>>
    \/ \E c \in Consumers : ConsumerTryPopLoadTail(c) /\ UNCHANGED <<batcherVars, transportVars, telemetryVars, timedVars>>
    \/ \E c \in Consumers : ConsumerTryPopLoadHead(c) /\ UNCHANGED <<batcherVars, transportVars, telemetryVars, timedVars>>
    \/ \E c \in Consumers : ConsumerTryPopRead(c) /\ UNCHANGED <<batcherVars, transportVars, telemetryVars, timedVars>>
    \/ \E c \in Consumers : ConsumerTryPopStoreTail(c) /\ UNCHANGED <<batcherVars, transportVars, telemetryVars, timedVars>>
    \/ \E c \in Consumers : ConsumerNothingPopped(c) /\ UNCHANGED <<ringVars, batcherVars, transportVars, telemetryVars, timedVars>>
    \/ \E c \in Consumers : ConsumerAddOrder(c) /\ UNCHANGED <<ringVars, transportVars, telemetryVars, timedVars>>
    \/ \E c \in Consumers : ConsumerCheckTimeout(c) /\ UNCHANGED <<ringVars, transportVars, telemetryVars, timedVars>>
    \/ \E c \in Consumers : ConsumerSendDirect(c) /\ UNCHANGED <<ringVars, transportVars, telemetryVars, timedVars>>
    \/ TelemetryLoopTest /\ UNCHANGED <<ringVars, batcherVars, transportVars, systemVars, timedVars>>
    \/ TelemetryReport /\ UNCHANGED <<ringVars, batcherVars, transportVars, systemVars, timedVars>>
    \/ TelemetryStatsBegin /\ UNCHANGED <<ringVars, batcherVars, transportVars, systemVars, timedVars>>
    \/ TelemetryLoadProduced /\ UNCHANGED <<ringVars, batcherVars, transportVars, systemVars, timedVars>>
    \/ TelemetryLoadConsumed /\ UNCHANGED <<ringVars, batcherVars, transportVars, systemVars, timedVars>>
    \/ TelemetrySleep /\ UNCHANGED <<ringVars, batcherVars, transportVars, systemVars, timedVars>>
    \/ MainStop /\ UNCHANGED <<ringVars, batcherVars, transportVars, telemetryVars, timedVars>>
    \/ MainJoin /\ UNCHANGED <<ringVars, batcherVars, transportVars, telemetryVars, timedVars>>
    \/ MainShutdownSystem /\ UNCHANGED <<ringVars, batcherVars, transportVars, telemetryVars, timedVars>>
    \/ MainForceFlush /\ UNCHANGED <<ringVars, transportVars, telemetryVars, timedVars>>
    \/ MainReport /\ UNCHANGED <<ringVars, batcherVars, transportVars, telemetryVars, timedVars>>

SpecTelemetry == InitTelemetryLine /\ [][NextTelemetry]_vars

\* ------------------------------ specification: get_stats beside send_fast
\* Two threads, each calling udp_send_orders or get_udp_stats, before and
\* after the simulator is created.
InitUdpStats ==
    /\ InitNoRing
    /\ InitBatcher({0}, {0})
    /\ InitTransport({"UDP"}, {2})
    /\ InitNoSystem
    /\ InitNoTelemetry
    /\ InitNoTimed

NextUdpStats ==
    \/ InitSimulator /\ UNCHANGED <<ringVars, batcherVars, systemVars, telemetryVars, timedVars>>
    \/ \E s \in Senders : SendUninitialized(s) /\ UNCHANGED <<ringVars, batcherVars, systemVars, telemetryVars, timedVars>>
    \/ \E s \in Senders : UdpSendOrders(s) /\ UNCHANGED <<ringVars, batcherVars, systemVars, telemetryVars, timedVars>>
    \/ \E s \in Senders : UdpDraw(s) /\ UNCHANGED <<ringVars, batcherVars, systemVars, telemetryVars, timedVars>>
    \/ \E s \in Senders : UdpAddDelay(s) /\ UNCHANGED <<ringVars, batcherVars, systemVars, telemetryVars, timedVars>>
    \/ \E s \in Senders : GetStatsUninitialized(s) /\ UNCHANGED <<ringVars, batcherVars, systemVars, telemetryVars, timedVars>>
    \/ \E s \in Senders : GetStatsLock(s) /\ UNCHANGED <<ringVars, batcherVars, systemVars, telemetryVars, timedVars>>
    \/ \E s \in Senders : GetStatsLoadSent(s) /\ UNCHANGED <<ringVars, batcherVars, systemVars, telemetryVars, timedVars>>
    \/ \E s \in Senders : GetStatsLoadDropped(s) /\ UNCHANGED <<ringVars, batcherVars, systemVars, telemetryVars, timedVars>>
    \/ \E s \in Senders : GetStatsLoadDelay(s) /\ UNCHANGED <<ringVars, batcherVars, systemVars, telemetryVars, timedVars>>

SpecUdpStats == InitUdpStats /\ [][NextUdpStats]_vars

\* ------------------------------------------------------------- properties
IsPrefix(s, t) ==
    /\ Len(s) <= Len(t)
    /\ \A i \in 1..Len(s) : s[i] = t[i]

\* The orders a producer synthesizes, in the order it synthesizes them.
Synthesized(p, n) == [i \in 1..n |-> MakeOrder(p * IdBase + i - 1)]

\* C1. Ring FIFO under SPSC: in every interleaving of one pushing and one
\* popping thread on a ring of power-of-two capacity, the orders returned by
\* successful try_pop calls are a prefix of the orders whose try_push
\* returned true, in the same order.
C1_RingFifo ==
    IsPowerOfTwo(capacity_) => IsPrefix(popped, pushed)

\* The S1 scenario's end: capacity 4, six orders pushed and popped in order,
\* the indices having wrapped.
C1_Witness ==
    /\ capacity_ = 4
    /\ popped = Synthesized(0, 6)
    /\ pushed = popped
    /\ head_ = 2

\* C2. Ring capacity: counting from a state in which the ring is empty,
\* with no pop completing in between, no more than C-1 pushes return true,
\* and a push returns false only once C-1 have returned true.
C2_RingCapacity ==
    (IsPowerOfTwo(capacity_) /\ streak_valid) =>
        /\ streak <= capacity_ - 1
        /\ streak_failed => streak = capacity_ - 1

\* A ring of capacity 4 emptied by pops, then filled by three pushes, the
\* fourth push returning false.
C2_Witness ==
    /\ capacity_ = 4
    /\ Len(popped) >= 1
    /\ streak_valid
    /\ streak = 3
    /\ streak_failed

PushReadsTail(p) ==
    prod[p].pc = "push_load_tail" /\ prod'[p].pc # "push_load_tail"

PushReturnsFalse(p) ==
    prod[p].pc = "push_load_tail" /\ prod'[p].pc = "idle"

PushReturnsTrue(p) ==
    prod[p].pc = "push_store_head" /\ prod'[p].pc = "idle"

\* C3. try_push returns false exactly when (head+1) mod C = tail at the
\* moment it reads tail; returning false it leaves head, tail and the slots
\* as they were; returning true it moves head forward by one modulo C and
\* leaves tail as it was.
C3_TryPushContract ==
    [][IsPowerOfTwo(capacity_) => \A p \in Producers :
          /\ PushReadsTail(p) =>
                (PushReturnsFalse(p) <=> ((head_ + 1) % capacity_ = tail_))
          /\ PushReturnsFalse(p) =>
                /\ prod'[p].ret = FALSE
                /\ head_' = head_
                /\ tail_' = tail_
                /\ buffer_' = buffer_
          /\ PushReturnsTrue(p) =>
                /\ prod'[p].ret = TRUE
                /\ head_' = (head_ + 1) % capacity_
                /\ tail_' = tail_]_vars

\* Both returns of try_push have been seen on a ring whose head wrapped.
C3_Witness ==
    /\ capacity_ = 2
    /\ Len(pushed) >= 3
    /\ prod[0].ret = FALSE
    /\ prod[0].pc = "idle"

PopReadsHead(c) ==
    cons[c].pc = "pop_load_head" /\ cons'[c].pc # "pop_load_head"

PopReturnsFalse(c) ==
    cons[c].pc = "pop_load_head" /\ cons'[c].pc = "idle"

PopReturnsTrue(c) ==
    cons[c].pc = "pop_store_tail" /\ cons'[c].pc = "idle"

\* C4. try_pop returns false exactly when head = tail at the moment it reads
\* head; returning false it leaves head, tail, the slots and the output as
\* they were; returning true it has written the oldest order not yet popped
\* to the output and moves tail forward by one modulo C.
C4_TryPopContract ==
    [][IsPowerOfTwo(capacity_) => \A c \in Consumers :
          /\ PopReadsHead(c) => (PopReturnsFalse(c) <=> (head_ = tail_))
          /\ PopReturnsFalse(c) =>
                /\ cons'[c].ret = FALSE
                /\ cons'[c].item = cons[c].item
                /\ head_' = head_
                /\ tail_' = tail_
                /\ buffer_' = buffer_
          /\ PopReturnsTrue(c) =>
                /\ cons'[c].ret = TRUE
                /\ Len(popped) < Len(pushed)
                /\ cons'[c].item = pushed[Len(popped) + 1]
                /\ tail_' = (tail_ + 1) % capacity_
                /\ head_' = head_]_vars

\* A pop returned false on a ring emptied after its tail wrapped, the output
\* still default-constructed.
C4_Witness ==
    /\ capacity_ = 2
    /\ Len(popped) >= 3
    /\ cons[0].ret = FALSE
    /\ cons[0].pc = "idle"
    /\ cons[0].item = DefaultOrder

\* C5. Ring index invariant: on a ring of power-of-two capacity C with one
\* producer and one consumer, head and tail stay in 0..C-1, size() is
\* (head - tail) mod C and is the number of successful pushes less the
\* number of successful pops, 0 <= size() <= C-1, empty() is head = tail and
\* full() is (head+1) mod C = tail.
C5_RingIndexInvariant ==
    IsPowerOfTwo(capacity_) =>
        /\ ring_state = "constructed"
        /\ head_ \in 0..(capacity_ - 1)
        /\ tail_ \in 0..(capacity_ - 1)
        /\ size = (head_ - tail_) % capacity_
        /\ size = Len(pushed) - Len(popped)
        /\ 0 <= size
        /\ size <= capacity_ - 1
        /\ empty <=> (head_ = tail_)
        /\ full <=> ((head_ + 1) % capacity_ = tail_)

\* A full ring of capacity 4 whose head has wrapped below its tail.
C5_Witness ==
    /\ capacity_ = 4
    /\ head_ < tail_
    /\ full
    /\ size = 3

RingQuiescent ==
    /\ \A p \in Producers : prod[p].pc = "idle"
    /\ \A c \in Consumers : cons[c].pc = "idle"

\* C6. Ring emptiness consistency: whenever no call is in progress and as
\* many pushes as pops have succeeded, empty() is true and size() is 0.
C6_RingEmptinessConsistency ==
    (IsPowerOfTwo(capacity_) /\ RingQuiescent /\ Len(pushed) = Len(popped)) =>
        (empty /\ size = 0)

\* Three pushes and three pops succeeded on a ring of capacity 2, a push and
\* a pop having failed along the way; nothing is in progress.
C6_Witness ==
    /\ capacity_ = 2
    /\ RingQuiescent
    /\ Len(pushed) = 3
    /\ Len(popped) = 3
    /\ prod[0].order_count > 3
    /\ cons[0].ret = FALSE

\* A call of try_push or try_pop has started on the ring.
RingOperationRan ==
    \/ \E p \in Producers : prod[p].pc # "idle" \/ prod[p].order_count > 0
    \/ \E c \in Consumers : cons[c].pc # "idle" \/ cons[c].ret # "none"

\* C7. A ring whose capacity is not a power of two >= 2 is rejected at
\* construction: no try_push or try_pop ever runs on it.
C7_InvalidCapacityRejected ==
    ~(IsPowerOfTwo(capacity_) /\ capacity_ >= 2) => ~RingOperationRan

\* C8. Batcher size trigger: with batch_size B >= 1, of the add_order calls
\* made since the buffer was last empty, the first B-1 invoke the send
\* callback zero times and the B-th invokes it once, with exactly the B
\* orders added, leaving the buffer empty and has_orders false.
C8_BatcherSizeTrigger ==
    (batch_size_threshold_ >= 1 /\ last_op = "add_order") =>
        /\ Len(run) <= batch_size_threshold_
        /\ Len(run) < batch_size_threshold_ => last_sends = 0
        /\ Len(run) = batch_size_threshold_ =>
              /\ last_sends = 1
              /\ flushes[Len(flushes)].orders = run
              /\ batch_buffer_ = <<>>
              /\ ~has_orders_

\* The S3 scenario: batch_size 3, the third add_order flushed the three
\* orders in the one callback invocation so far.
C8_Witness ==
    /\ batch_size_threshold_ = 3
    /\ last_op = "add_order"
    /\ Len(run) = 3
    /\ Len(flushes) = 1
    /\ flushes[1].orders = run

\* C9. Batcher age trigger: check_timeout returns true exactly when it
\* flushed, and it flushes exactly when the buffer is non-empty and
\* now - first_order_time >= timeout; a check_timeout that follows a
\* flushing check_timeout returns false and invokes no callback.
C9_CheckTimeoutContract ==
    [][CheckTimeout =>
          /\ Len(flushes') \in {Len(flushes), Len(flushes) + 1}
          /\ (last_ret' = TRUE) <=> (Len(flushes') = Len(flushes) + 1)
          /\ (Len(flushes') = Len(flushes) + 1) <=>
                (batch_buffer_ # <<>> /\ now - first_order_time_ >= timeout_)
          /\ (last_op = "check_timeout" /\ last_ret = TRUE) =>
                (last_ret' = FALSE /\ flushes' = flushes)]_vars

\* The S4 scenario: one order aged to the timeout was flushed by a
\* check_timeout that returned true.
C9_Witness ==
    /\ timeout_ = 2
    /\ batch_size_threshold_ = 3
    /\ last_op = "check_timeout"
    /\ last_ret = TRUE
    /\ Len(flushes) = 1
    /\ Len(flushes[1].orders) = 1
    /\ flushes[1].latency_us = 2

\* C10. force_flush invokes the send callback once when the buffer is
\* non-empty and not at all when it is empty; a force_flush that follows a
\* force_flush invokes no callback and leaves the Batcher as it was.
C10_ForceFlushContract ==
    [][ForceFlush =>
          /\ Len(flushes') - Len(flushes) =
                (IF batch_buffer_ # <<>> THEN 1 ELSE 0)
          /\ last_op = "force_flush" =>
                /\ flushes' = flushes
                /\ batch_buffer_' = batch_buffer_
                /\ has_orders_' = has_orders_
                /\ first_order_time_' = first_order_time_]_vars

\* A force_flush handed a partial batch of two orders to the callback.
C10_Witness ==
    /\ batch_size_threshold_ = 3
    /\ last_op = "force_flush"
    /\ last_sends = 1
    /\ batch_buffer_ = <<>>
    /\ Len(flushes[Len(flushes)].orders) = 2

\* A sender's call that went through the simulator.
CallSent(s) == snd[s].path = "sent"

\* Such a call has returned.
CallReturned(s) == CallSent(s) /\ snd[s].pc = "idle"

\* C11. Reliable retry bound: whatever max_retries = R >= 0 and whatever
\* the sequence of drop and deliver outcomes, one send_reliable call
\* increments dropped_packets at most R + 1 times and retransmissions at
\* most R times; with a single sender these are the increases of the
\* two counters since the call began.
C11_ReliableRetryBound ==
    \A s \in Senders :
        (network_type = "TCP" /\ CallSent(s)) =>
            /\ snd[s].own_dropped <= max_retries_ + 1
            /\ snd[s].own_retx <= max_retries_
            /\ num_senders = 1 =>
                 /\ tcp_sim.dropped_packets_ - snd[s].entry_dropped
                        = snd[s].own_dropped
                 /\ tcp_sim.retransmissions_ - snd[s].entry_retx
                        = snd[s].own_retx

\* A second call of the only sender, with max_retries = 2, has had all its
\* three attempts dropped and has not returned yet.
C11_Witness ==
    /\ network_type = "TCP"
    /\ num_senders = 1
    /\ max_retries_ = 2
    /\ snd[0].calls = 2
    /\ snd[0].pc = "tcp_loop"
    /\ tcp_sim.dropped_packets_ - snd[0].entry_dropped = 3
    /\ tcp_sim.retransmissions_ - snd[0].entry_retx = 2

\* C12. Reliable exhaustion: a send_reliable call that returned false made
\* exactly R + 1 attempts, all dropped, and incremented dropped_packets
\* R + 1 times and retransmissions R times; one that returned true was
\* delivered on its (k+1)-th attempt, k <= R, and incremented both counters
\* k times; with a drop rate of 1.0 every call returns false.
C12_ReliableExhaustion ==
    \A s \in Senders :
        (network_type = "TCP" /\ CallReturned(s)) =>
            /\ snd[s].ret = FALSE =>
                 /\ snd[s].attempts = max_retries_ + 1
                 /\ snd[s].own_dropped = max_retries_ + 1
                 /\ snd[s].own_retx = max_retries_
            /\ snd[s].ret = TRUE =>
                 /\ snd[s].attempts - 1 <= max_retries_
                 /\ snd[s].own_dropped = snd[s].attempts - 1
                 /\ snd[s].own_retx = snd[s].attempts - 1
            /\ drop_rate_ = "always" => snd[s].ret = FALSE
            /\ num_senders = 1 =>
                 /\ tcp_sim.dropped_packets_ - snd[s].entry_dropped
                        = snd[s].own_dropped
                 /\ tcp_sim.retransmissions_ - snd[s].entry_retx
                        = snd[s].own_retx

\* With max_retries = 2, one sender's call returned false after three drops
\* and the other's returned true on its second attempt.
C12_Witness ==
    /\ network_type = "TCP"
    /\ num_senders = 2
    /\ max_retries_ = 2
    /\ CallReturned(0) /\ snd[0].ret = FALSE /\ snd[0].own_dropped = 3
    /\ CallReturned(1) /\ snd[1].ret = TRUE /\ snd[1].attempts = 2
    /\ tcp_sim.dropped_packets_ = 4
    /\ tcp_sim.retransmissions_ = 3

\* C13. Best-effort accounting: every send_fast call increments packets_sent
\* once; a dropped call increments packets_dropped once, returns false and
\* leaves total_delay_us alone (no retry); a call that is not dropped
\* returns true, leaves packets_dropped alone and adds a delay of at least
\* 1 to total_delay_us.  With a single sender these are the changes of the
\* counters since the call began.
C13_BestEffortAccounting ==
    \A s \in Senders :
        (network_type = "UDP" /\ CallSent(s)) =>
            /\ snd[s].own_sent = 1
            /\ num_senders = 1 =>
                 udp_sim.packets_sent_ = snd[s].entry_sent + 1
            /\ (CallReturned(s) /\ snd[s].dropped) =>
                 /\ snd[s].ret = FALSE
                 /\ snd[s].own_dropped = 1
                 /\ num_senders = 1 =>
                      /\ udp_sim.packets_dropped_ = snd[s].entry_dropped + 1
                      /\ udp_sim.total_delay_us_ = snd[s].entry_delay
            /\ (CallReturned(s) /\ ~snd[s].dropped) =>
                 /\ snd[s].ret = TRUE
                 /\ snd[s].own_dropped = 0
                 /\ snd[s].delay >= 1
                 /\ num_senders = 1 =>
                      /\ udp_sim.packets_dropped_ = snd[s].entry_dropped
                      /\ udp_sim.total_delay_us_
                            = snd[s].entry_delay + snd[s].delay

\* The only sender's first call was dropped and its second delivered with
\* the smallest delay.
C13_Witness ==
    /\ network_type = "UDP"
    /\ num_senders = 1
    /\ snd[0].calls = 2
    /\ CallReturned(0) /\ snd[0].ret = TRUE
    /\ udp_sim.packets_sent_ = 2
    /\ udp_sim.packets_dropped_ = 1
    /\ udp_sim.total_delay_us_ = 1

\* C14. Instant transport: once the simulator exists every send returns
\* true, whatever the noise draw, and increments messages_sent once; it
\* never returns false.
C14_InstantAlwaysSucceeds ==
    \A s \in Senders :
        (network_type = "SHM" /\ CallSent(s)) =>
            /\ CallReturned(s) => snd[s].ret = TRUE
            /\ snd[s].own_sent = 1
            /\ num_senders = 1 =>
                 shm_sim.messages_sent_ = snd[s].entry_sent + 1

\* The only sender's second send returned true after a negative noise draw.
C14_Witness ==
    /\ network_type = "SHM"
    /\ num_senders = 1
    /\ snd[0].calls = 2
    /\ CallReturned(0) /\ snd[0].ret = TRUE
    /\ snd[0].noise < 0
    /\ shm_sim.messages_sent_ = 2

\* C15. Transport monotonicity: with reset_stats never called, and with
\* several threads sending at once, none of packets_sent, packets_dropped,
\* dropped_packets, retransmissions and messages_sent decreases from one
\* state to the next.
C15_TransportMonotonicity ==
    [][/\ udp_sim'.packets_sent_ >= udp_sim.packets_sent_
       /\ udp_sim'.packets_dropped_ >= udp_sim.packets_dropped_
       /\ tcp_sim'.dropped_packets_ >= tcp_sim.dropped_packets_
       /\ tcp_sim'.retransmissions_ >= tcp_sim.retransmissions_
       /\ shm_sim'.messages_sent_ >= shm_sim.messages_sent_]_vars

\* Two threads inside send_reliable at once, each having counted a drop
\* and a retransmission.
C15_Witness ==
    /\ network_type = "TCP"
    /\ num_senders = 2
    /\ \A s \in Senders : /\ snd[s].pc = "tcp_loop"
                          /\ snd[s].own_dropped >= 1
                          /\ snd[s].own_retx >= 1
    /\ tcp_sim.active_connections_ = 2
    /\ tcp_sim.dropped_packets_ >= 3

\* Every producer and consumer worker has returned from its thread function.
WorkersExited ==
    /\ \A p \in Producers : pthread[p] = "exited"
    /\ \A c \in Consumers : cthread[c] = "exited"

\* C16. Shutdown flush ordering: the main thread reaches force_flush only
\* after every producer and consumer worker has exited and been joined, so
\* no add_order or check_timeout runs with or after it; the orders left in a
\* partial batch all go to the send callback in one flush, and the Batcher's
\* buffer is empty when the final statistics are reported.
C16_ShutdownFlushOrdering ==
    /\ main_pc \in {"force_flush", "report", "done"} =>
          /\ WorkersExited
          /\ join_index = NumThreads
    /\ main_pc \in {"report", "done"} =>
          /\ batch_buffer_ = <<>>
          /\ (enable_batching /\ shutdown_batch # <<>>) =>
                /\ last_op = "force_flush"
                /\ last_sends = 1
                /\ flushes[Len(flushes)].orders = shutdown_batch
    /\ reported # <<>> => (main_pc = "done" /\ batch_buffer_ = <<>>)

\* The final statistics have been printed after shutdown_system flushed a
\* partial batch of one order, an earlier batch having been flushed by the
\* consumer.
C16_Witness ==
    /\ main_pc = "done"
    /\ enable_batching
    /\ Len(shutdown_batch) = 1
    /\ Len(flushes) = 2
    /\ reported # <<>>

\* The ids of the orders producer p called try_push with, in order.
AttemptedBy(p) == SelectSeq(attempted, LAMBDA id : id \div IdBase = p)

\* C17. Producer drop-on-full accounting: a producer calls try_push once
\* for each order it synthesizes (never again for an order that was
\* refused), and increments orders_produced exactly when that call returned
\* true; whenever no producer is between a try_push and its increment,
\* orders_produced is the number of try_push calls that returned true.
C17_ProducerDropAccounting ==
    /\ \A p \in Producers :
          AttemptedBy(p) = [i \in 1..Len(AttemptedBy(p)) |-> p * IdBase + i - 1]
    /\ stats.orders_produced
          + Cardinality({p \in Producers :
                            pthread[p] = "returned" /\ prod[p].ret = TRUE})
          = Len(pushed)
    /\ (\A p \in Producers : pthread[p] \in {"loop", "call", "exited"}) =>
          stats.orders_produced = Len(pushed)

\* The producer has exited after two try_push calls, the second refused by
\* the full ring: one order produced.
C17_Witness ==
    /\ \A p \in Producers : pthread[p] = "exited"
    /\ Len(attempted) = 2
    /\ Len(pushed) = 1
    /\ stats.orders_produced = 1
    /\ prod[0].ret = FALSE

\* Producer p is between try_push's full test and the end of its slot write.
ProducerWriting(p, i) ==
    prod[p].pc = "push_write" /\ prod[p].current_head = i

\* Consumer c is between try_pop's empty test and the end of its slot read.
ConsumerReading(c, i) ==
    cons[c].pc = "pop_read" /\ cons[c].current_tail = i

\* Slot i holds an order published by a head store and not yet released by a
\* tail store: it lies in [tail, head) modulo the capacity.
SlotPublished(i) ==
    (i - tail_) % capacity_ < (head_ - tail_) % capacity_

\* C18. SPSC slot exclusivity: with one producer and one consumer, the
\* producer is never writing a slot while the consumer reads the same slot;
\* the consumer only reads a slot whose write the producer has published by
\* its head store, and the producer only writes a slot that is not
\* published, any earlier read of it having been published by a tail store.
C18_SlotExclusivity ==
    (IsPowerOfTwo(capacity_) /\ RingUsable) =>
        \A i \in 0..(capacity_ - 1) :
            /\ \A p \in Producers, c \in Consumers :
                  ~(ProducerWriting(p, i) /\ ConsumerReading(c, i))
            /\ \A c \in Consumers :
                  ConsumerReading(c, i) => (SlotPublished(i) /\ i = tail_)
            /\ \A p \in Producers :
                  ProducerWriting(p, i) => (~SlotPublished(i) /\ i = head_)

\* On a ring of capacity 4 whose indices have wrapped, the producer is
\* writing one slot while the consumer is reading another.
C18_Witness ==
    /\ capacity_ = 4
    /\ Len(popped) >= 3
    /\ \E i, j \in 0..3 : /\ i # j
                          /\ ProducerWriting(0, i)
                          /\ ConsumerReading(0, j)
                          /\ i < j

Range(s) == {s[i] : i \in 1..Len(s)}

\* An order whose try_push returned true and that no try_pop has returned
\* or can return: it is in no slot and in no consumer's hands.
Lost(o) ==
    /\ o \in Range(pushed)
    /\ o \notin Range(popped)
    /\ \A i \in 0..(capacity_ - 1) : buffer_[i] # o
    /\ \A c \in Consumers : cons[c].item # o

\* C19. Multi-producer hazard: two producers calling try_push concurrently
\* can both read the same head, both write the same slot and both return
\* true, so that an order whose push reported success is never returned by
\* any try_pop and FIFO is violated (C19_Witness is such an outcome).  What
\* makes it possible holds on every step: a producer past the full test
\* always returns true, its head store is blind (head becomes the successor
\* of the head it read, whatever head is by then), and an order that has
\* become lost stays lost.
C19_MultiProducerHazard ==
    [][\A p \in Producers :
          /\ prod[p].pc = "push_store_head" =>
                \/ prod'[p] = prod[p]
                \/ /\ prod'[p].pc = "idle"
                   /\ prod'[p].ret = TRUE
                   /\ head_' = (prod[p].current_head + 1) % capacity_
                   /\ pushed' = Append(pushed, prod[p].item)
          /\ \A o \in Range(pushed) : Lost(o) => Lost(o)']_vars

\* Both producers' first try_push returned true having read head 0: head
\* moved once, the consumer drained the ring with a single pop, one of the
\* two orders is lost and the popped orders are not a prefix of the pushed.
C19_Witness ==
    /\ capacity_ = 4
    /\ \A p \in Producers : /\ prod[p].pc = "idle"
                            /\ prod[p].order_count = 1
                            /\ prod[p].ret = TRUE
    /\ Len(pushed) = 2
    /\ head_ = 1
    /\ tail_ = 1
    /\ cons[0].pc = "idle"
    /\ Len(popped) = 1
    /\ Lost(pushed[1])
    /\ ~IsPrefix(popped, pushed)

\* C20. Multi-consumer at-most-once delivery: with one producer and two or
\* more consumers on one ring, every pushed order is returned by at most
\* one successful try_pop, and tail never moves backwards: a consumer about
\* to store tail stores the successor of the current tail.
C20_AtMostOnceDelivery ==
    /\ \A i, j \in 1..Len(popped) : i # j => popped[i] # popped[j]
    /\ \A c \in Consumers :
          cons[c].pc = "pop_store_tail" => cons[c].current_tail = tail_

\* The orders of the callback's invocations so far, one after the other.
RECURSIVE FlushedOrders(_)
FlushedOrders(fs) ==
    IF fs = <<>> THEN <<>>
    ELSE FlushedOrders(SubSeq(fs, 1, Len(fs) - 1)) \o fs[Len(fs)].orders

\* The orders handed to add_order so far, in the order they were added.
AddedOrders == [i \in 1..added |-> MakeOrder(i)]

\* C22. Flush action: every flush hands the callback exactly the orders
\* added since the previous flush, in the order added and once only, so
\* that the flushed batches followed by the buffer are the added orders;
\* the operation that flushed leaves the buffer empty and has_orders false;
\* after a force_flush the flushed batches alone are the added orders.
C22_FlushAction ==
    /\ FlushedOrders(flushes) \o batch_buffer_ = AddedOrders
    /\ last_sends >= 1 =>
          /\ last_sends = 1
          /\ batch_buffer_ = <<>>
          /\ ~has_orders_
    /\ last_op = "force_flush" =>
          /\ batch_buffer_ = <<>>
          /\ ~has_orders_
          /\ FlushedOrders(flushes) = AddedOrders

\* Five orders added to a Batcher of batch size 3: three left by the size
\* trigger, and the final force_flush handed over the other two.
C22_Witness ==
    /\ batch_size_threshold_ = 3
    /\ added = 5
    /\ last_op = "force_flush"
    /\ last_sends = 1
    /\ Len(flushes) = 2
    /\ Len(flushes[2].orders) = 2

\* C23. Batcher state invariant: for batch_size B >= 1, after every
\* completed add_order, check_timeout or force_flush has_orders is true
\* exactly when the buffer is non-empty, the buffer is shorter than B, and
\* no batch handed to the callback is longer than B.
C23_BatcherStateInvariant ==
    batch_size_threshold_ >= 1 =>
        /\ has_orders_ <=> (batch_buffer_ # <<>>)
        /\ Len(batch_buffer_) < batch_size_threshold_
        /\ \A i \in 1..Len(flushes) :
              Len(flushes[i].orders) <= batch_size_threshold_

\* A Batcher of batch size 3 holding two orders after a full batch of three
\* was flushed.
C23_Witness ==
    /\ batch_size_threshold_ = 3
    /\ last_op = "add_order"
    /\ Len(batch_buffer_) = 2
    /\ has_orders_
    /\ Len(flushes) = 1
    /\ Len(flushes[1].orders) = 3

\* The send_reliable calls in flight: entered and not yet returned.
SendsInFlight == {s \in Senders : snd[s].pc \in {"tcp_loop", "tcp_dropped"}}

\* C25. Reliable active_connections gauge: in every reachable state
\* active_connections_ is the number of send_reliable calls in flight, so it
\* is never negative and is 0 when no send is in flight (one increment on
\* entry, one decrement on each way out).
C25_ActiveConnectionsGauge ==
    /\ tcp_sim.active_connections_ = Cardinality(SendsInFlight)
    /\ tcp_sim.active_connections_ >= 0
    /\ SendsInFlight = {} => tcp_sim.active_connections_ = 0

\* Two threads have used the TCP transport: one call gave up after its
\* retries and returned false, the other is in flight after a drop, and the
\* gauge reads 1.
C25_Witness ==
    /\ network_type = "TCP"
    /\ num_senders = 2
    /\ \E s, t \in Senders :
          /\ CallReturned(s) /\ CallSent(s) /\ ~snd[s].ret
          /\ snd[t].pc = "tcp_dropped"
    /\ tcp_sim.active_connections_ = 1

\* No send_instant call is in flight and at least one has measured a delay.
InstantSendsCompleted ==
    /\ network_type = "SHM"
    /\ \A s \in Senders : snd[s].pc = "idle"
    /\ \E s \in Senders : snd[s].seen_min <= snd[s].seen_max

\* C29. Instant transport min/max under concurrency: when the concurrent
\* send_instant calls have completed, min_delay_ns_ is the least and
\* max_delay_ns_ the greatest of all the delays the calls measured, and
\* min_delay_ns_ <= max_delay_ns_: the compare-exchange loops lose no update.
C29_InstantMinMax ==
    InstantSendsCompleted =>
        /\ \A s \in Senders : shm_sim.min_delay_ns_ <= snd[s].seen_min
        /\ \E s \in Senders : shm_sim.min_delay_ns_ = snd[s].seen_min
        /\ \A s \in Senders : shm_sim.max_delay_ns_ >= snd[s].seen_max
        /\ \E s \in Senders : shm_sim.max_delay_ns_ = snd[s].seen_max
        /\ shm_sim.min_delay_ns_ <= shm_sim.max_delay_ns_

\* Two threads completed send_instant calls after one of them had to repeat
\* its compare-exchange: the least delay came from one thread and the
\* greatest from the other.
C29_Witness ==
    /\ InstantSendsCompleted
    /\ num_senders = 2
    /\ \E s, t \in Senders :
          /\ s # t
          /\ snd[s].calls >= 1 /\ snd[t].calls >= 1
          /\ snd[s].seen_min < snd[t].seen_min
          /\ snd[s].seen_max < snd[t].seen_max
          /\ shm_sim.min_delay_ns_ = snd[s].seen_min
          /\ shm_sim.max_delay_ns_ = snd[t].seen_max

\* The callback's invocations whose send returned true.
SentBatches == {i \in 1..Len(flushes) : send_results[i]}

RECURSIVE SumOver(_, _)
SumOver(indices, f) ==
    IF indices = {} THEN 0
    ELSE LET i == CHOOSE j \in indices : TRUE
         IN  f[i] + SumOver(indices \ {i}, f)

\* C24. No re-queue on transport failure: a flush whose send returned false
\* still empties the buffer and resets has_orders_ and leaves batches_sent,
\* orders_consumed and total_latency_us as they were; no order is handed to
\* the callback twice; the three counters count the batches whose send
\* returned true and nothing else.
C24_NoRequeueOnFailure ==
    /\ [][(Len(send_results') = Len(send_results) + 1
           /\ ~send_results'[Len(send_results')]) =>
             /\ stats' = stats
             /\ batch_buffer_' = <<>>
             /\ ~has_orders_'
             /\ \A i \in 1..Len(flushes) :
                   Range(flushes[i].orders)
                     \cap Range(flushes'[Len(flushes')].orders) = {}]_vars
    /\ [](/\ Len(send_results) = Len(flushes)
          /\ \A i, j \in 1..Len(flushes) :
                i # j => Range(flushes[i].orders)
                           \cap Range(flushes[j].orders) = {}
          /\ stats.batches_sent = Cardinality(SentBatches)
          /\ stats.orders_consumed =
                SumOver(SentBatches, [i \in 1..Len(flushes) |->
                                         Len(flushes[i].orders)])
          /\ stats.total_latency_us =
                SumOver(SentBatches, [i \in 1..Len(flushes) |->
                                         flushes[i].latency_us]))

\* The run has ended after a first batch whose send returned false and a
\* later batch whose send returned true: only the later batch was counted.
C24_Witness ==
    /\ main_pc = "done"
    /\ enable_batching
    /\ Len(flushes) = 2
    /\ ~send_results[1]
    /\ send_results[2]
    /\ stats.batches_sent = 1
    /\ stats.orders_consumed = Len(flushes[2].orders)
    /\ batch_buffer_ = <<>>

\* main has returned 0: every thread of the vector has left its loop and been
\* joined, and shutdown_system has run its force_flush.
ShutdownComplete ==
    /\ main_pc = "done"
    /\ WorkersExited
    /\ tthread.pc = "exited"
    /\ join_index = NumThreads
    /\ batch_buffer_ = <<>>

\* C26. Cooperative shutdown terminates: once g_shutdown_requested is set or
\* main's wait loop has ended on the runtime deadline, every producer,
\* consumer and the telemetry thread eventually leaves its loop, main joins
\* them all, runs the final flush and returns 0.
C26_ShutdownTerminates ==
    (g_shutdown_requested \/ ~g_running) ~> ShutdownComplete

\* The signal arrived while the consumer was inside try_pop with batching
\* enabled and an order in the Batcher, and the run has come to its end.
C26_Witness ==
    /\ ShutdownComplete
    /\ g_shutdown_requested
    /\ enable_batching
    /\ Len(shutdown_batch) = 1
    /\ reported # <<>>

\* The callback has been handed order o.
HandedToCallback(o) == \E i \in 1..Len(flushes) : o \in Range(flushes[i].orders)

SizeReturned ==
    /\ tthread.pc = "returned"
    /\ IsPowerOfTwo(capacity_)
    /\ capacity_ >= 2

\* C28. size() staleness bound: beside one producer and one consumer, the
\* value size() returns lies in [0, C-1] and is within one of an occupancy
\* the ring had at some instant during the call.
C28_SizeStaleness ==
    SizeReturned =>
        /\ tthread.size \in 0..(capacity_ - 1)
        /\ tthread.occ_lo - 1 <= tthread.size
        /\ tthread.size <= tthread.occ_hi + 1

\* What size() does keep beside a producer and a consumer: its value is in
\* [0, C-1].
SizeStaysInRange ==
    SizeReturned => tthread.size \in 0..(capacity_ - 1)

\* A thread is inside a call of its timed helper.
InTimedCall(l) == l.pc \in {"test", "try", "trying", "sleep"}

\* What holds of a push_with_timeout call that has returned.
TimedPushContract ==
    timed.push.pc = "returned" =>
        /\ timed.push.ret <=> timed.push.succeeded
        /\ timed.push.ret =>
              /\ Len(pushed) = timed.push.entry_len + 1
              /\ pushed[Len(pushed)] = timed.push.order
              /\ Cardinality({i \in 1..Len(pushed) :
                                 pushed[i] = timed.push.order}) = 1
        /\ ~timed.push.ret =>
              /\ timed.push.remaining = 0
              /\ Len(pushed) = timed.push.entry_len
              /\ head_ = timed.push.entry_index
              /\ buffer_ = timed.push.entry_buffer
              /\ timed.push.order \notin Range(pushed)

\* What holds of a pop_with_timeout call that has returned.
TimedPopContract ==
    timed.pop.pc = "returned" =>
        /\ timed.pop.ret <=> timed.pop.succeeded
        /\ timed.pop.ret =>
              /\ Len(popped) = timed.pop.entry_len + 1
              /\ popped[Len(popped)] = timed.pop.order
        /\ ~timed.pop.ret =>
              /\ timed.pop.remaining = 0
              /\ Len(popped) = timed.pop.entry_len
              /\ tail_ = timed.pop.entry_index

\* C27. Timed ring helpers: every push_with_timeout call returns; it returns
\* true exactly when one of its try_push attempts succeeded, the order then
\* being enqueued once, and false only with the deadline passed and the ring
\* as the call found it; pop_with_timeout likewise with try_pop.
C27_TimedHelpers ==
    /\ [](TimedPushContract /\ TimedPopContract)
    /\ InTimedCall(timed.push) ~> (timed.push.pc = "returned")
    /\ InTimedCall(timed.pop) ~> (timed.pop.pc = "returned")

\* pop_with_timeout found the ring empty, slept and then popped the order a
\* push_with_timeout had enqueued meanwhile; a second push_with_timeout
\* found the ring full and returned false when its deadline passed.
C27_Witness ==
    /\ timed.push.pc = "returned"
    /\ ~timed.push.ret
    /\ timed.push.failed
    /\ timed.push.calls = 2
    /\ timed.pop.pc = "returned"
    /\ timed.pop.ret
    /\ timed.pop.failed

\* The orders whose push_back into the shared Batcher is done.
SharedAdded ==
    UNION {{MakeOrder(t * IdBase + k) : k \in 0..(bcall[t].done - 1)} :
           t \in SharedCallers}

\* The invocations of the callback that were handed order o.
FlushesHolding(o) == {i \in 1..Len(flushes) : o \in Range(flushes[i].orders)}

\* Order o was added and is gone from the buffer, and no invocation of the
\* callback was handed it.
ClearedUnflushed(o) ==
    /\ o \in SharedAdded
    /\ o \notin Range(batch_buffer_)
    /\ FlushesHolding(o) = {}

\* Order o was handed to the callback by two flushes.
FlushedTwice(o) == Cardinality(FlushesHolding(o)) >= 2

\* C21. Two consumers on the one Batcher: there are interleavings in which
\* an order is handed to the callback by two flushes, and interleavings in
\* which an order is cleared from the buffer without any flush having
\* handed it over.  flush_batch hands the callback the whole buffer as it
\* is at that instant, whatever another thread's flush has already handed
\* over, and its clear() empties the buffer, whatever was added since its
\* callback ran; nothing adds an order again, so an order handed twice
\* stays handed twice and an order cleared unflushed is never flushed.
C21_SharedBatcherRace ==
    /\ [][\A t \in SharedCallers :
            /\ SharedFlushCallback(t) =>
                  flushes'[Len(flushes')].orders = batch_buffer_
            /\ SharedFlushClear(t) => batch_buffer_' = <<>>]_vars
    /\ [][\A o \in SharedAdded :
            /\ ClearedUnflushed(o) => ClearedUnflushed(o)'
            /\ FlushedTwice(o) => FlushedTwice(o)']_vars

\* Both consumers are back from their calls, the buffer is empty, one
\* consumer's order was flushed and the other's was cleared while never
\* flushed: it was added between the first consumer's callback and clear().
C21_Witness ==
    /\ \A t \in SharedCallers : bcall[t].pc = "idle" /\ bcall[t].done = 1
    /\ batch_buffer_ = <<>>
    /\ \E o \in SharedAdded : ClearedUnflushed(o)
    /\ \E o \in SharedAdded : FlushesHolding(o) # {}

\* Both consumers are back from their calls and one order was handed to
\* the callback by the flushes of both.
SharedFlushedTwice ==
    /\ \A t \in SharedCallers : bcall[t].pc = "idle"
    /\ \E o \in SharedAdded : FlushedTwice(o)

\* No try_push and no try_pop is in progress, and no consumer holds a
\* popped order it has yet to hand to the Batcher.
Quiescent ==
    /\ \A p \in Producers : prod[p].pc = "idle"
    /\ \A c \in Consumers :
          /\ cons[c].pc = "idle"
          /\ cthread[c] = "returned" => cons[c].ret = FALSE

\* The orders in the ring's slots from tail_ up to head_.
RingOrders ==
    [k \in 1..SizeValue(head_, tail_) |->
        buffer_[BitAnd(WordAdd(tail_, k - 1), WordSub(capacity_, 1))]]

\* C31. End-to-end conservation (one producer, one consumer, batching
\* enabled): in every quiescent state the number of successful try_push
\* calls is the number of orders handed to the send callback plus the
\* length of the Batcher's buffer plus the ring's size, the pushed orders
\* being the handed ones, then the buffered ones, then those in the ring;
\* no order is handed to the callback twice; after shutdown_system the
\* buffer is empty, so the pushed orders never handed over are exactly
\* those still in the ring.
C31_EndToEndConservation ==
    (enable_batching /\ Quiescent) =>
        /\ Len(pushed) = Len(FlushedOrders(flushes)) + Len(batch_buffer_)
                           + SizeValue(head_, tail_)
        /\ pushed = FlushedOrders(flushes) \o batch_buffer_ \o RingOrders
        /\ \A i, j \in 1..Len(FlushedOrders(flushes)) :
              FlushedOrders(flushes)[i] = FlushedOrders(flushes)[j] => i = j
        /\ main_pc \in {"report", "done"} =>
              /\ batch_buffer_ = <<>>
              /\ Range(pushed) \ Range(FlushedOrders(flushes))
                    = Range(RingOrders)

\* The system has shut down after two successful pushes: the first order
\* was popped and went to the callback in shutdown_system's flush, the
\* second is still in the ring.
C31_Witness ==
    /\ enable_batching
    /\ Quiescent
    /\ main_pc = "done"
    /\ Len(pushed) = 2
    /\ Len(FlushedOrders(flushes)) = 1
    /\ SizeValue(head_, tail_) = 1
    /\ RingOrders = <<pushed[2]>>

\* The telemetry thread has loaded both counters for a statistics line.
LinePrinted == tthread.pc = "printed"

\* C32. Telemetry counter ordering (one producer, one consumer, correct
\* ring): in every state the telemetry worker can observe, orders_consumed
\* is at most orders_produced, and so are the two values of every
\* statistics line.
C32_TelemetryCounterOrdering ==
    /\ tthread.pc \notin {"none", "exited"} =>
          stats.orders_consumed <= stats.orders_produced
    /\ LinePrinted => tthread.consumed <= tthread.produced

\* A statistics line with Consumed=1 beside Produced=0.
ConsumedAheadPrinted ==
    /\ LinePrinted
    /\ tthread.consumed = 1
    /\ tthread.produced = 0

\* get_stats has returned a snapshot to thread s.
SnapshotReturned(s) == snd[s].path = "stats" /\ snd[s].pc = "idle"

\* The counters themselves: at every instant packets_dropped_ is at most
\* packets_sent_.
UdpCountersOrdered == udp_sim.packets_dropped_ <= udp_sim.packets_sent_

\* C33. Best-effort snapshot consistency: every snapshot get_stats returns
\* while send_fast calls run on other threads has packets_dropped at most
\* packets_sent, hence an actual_drop_rate between 0 and 1 and a
\* denominator of avg_delay_us that is not negative.
C33_SnapshotConsistency ==
    \A s \in Senders :
        SnapshotReturned(s) =>
            /\ snd[s].snap_dropped <= snd[s].snap_sent
            /\ 0 <= ActualDropRate(snd[s].snap_sent, snd[s].snap_dropped).num
            /\ ActualDropRate(snd[s].snap_sent, snd[s].snap_dropped).num
                  <= ActualDropRate(snd[s].snap_sent, snd[s].snap_dropped).den
            /\ AvgDelayDenominator(snd[s].snap_sent, snd[s].snap_dropped) >= 0

\* A snapshot of one packet sent and two dropped: a drop rate of 2.
SnapshotDropRateTwo ==
    \E s \in Senders :
        /\ SnapshotReturned(s)
        /\ snd[s].snap_sent = 1
        /\ snd[s].snap_dropped = 2

====
